---------------------------- MODULE Spec2Model ----------------------------
(***************************************************************************)
(* A model of sibyl's typed column buffers and conversions                 *)
(* (src/src/stmt/cols.rs, src/src/stmt/fromsql.rs), of its Varchar         *)
(* (src/src/types/varchar.rs), of its nullable parameter wrapper           *)
(* (src/src/nvl.rs) and of its blocking session pool                       *)
(* (src/src/pool/session/blocking.rs) as it is used by                     *)
(* src/examples/multithreaded_pooled_sessions.rs.                          *)
(*                                                                         *)
(* The specifications of the module, one per component:                    *)
(*   SpecCols      one column of a result set: fetches and conversions     *)
(*   SpecColumns   Columns::new describing the projection of a statement,  *)
(*                 the lookups in the Columns it returns and its drop      *)
(*   SpecSize      the buffer size Columns::new computes for one column    *)
(*   SpecVarchar   one Varchar: its constructors, set and resize           *)
(*   SpecNvl       one Nvl argument: its methods, bind, execute, read-back *)
(*   SpecArgs      the arguments of one statement: binds, execute, update  *)
(*   SpecPool      W workers borrowing sessions from one SessionPool       *)
(*   FairSpecPool  SpecPool with the fairness of thread scheduling         *)
(* Each leaves the variables of the other components untouched.            *)
(***************************************************************************)
EXTENDS Integers, Sequences, FiniteSets, TLC

VARIABLES
    \* ---- column conversion (cols.rs / fromsql.rs) ----
    colBuf,     \* Column::buf : the ColumnBuffer, [kind, data]
    colInd,     \* Column::ind : the indicator the driver wrote at the last fetch
    rowNum,     \* number of the row the cursor is on (0: nothing fetched yet)
    gets,       \* conversions requested on the current row
    okGets,     \* of these, the ones that returned Ok(Some(handle)) to the column's own descriptor type
    prevRowOk,  \* okGets of the previous row
    owned,      \* the handles handed to the application from the current row
    lastRes,    \* what the last Row::get returned
    \* ---- Nvl (nvl.rs) ----
    nvl,        \* Nvl<T>.0 : Option<T>, <<>> is None and <<v>> is Some(v)
    params,     \* stmt::Params : position -> what is bound there
    phase,      \* where the statement using the argument is: idle, bound, executed
    bindPos,    \* position the argument was bound at
    nextPos,    \* position bind_to returned
    nvlRes,     \* what the last Nvl call returned
    \* ---- the arguments of a statement (nvl.rs, tests/option_args.rs) ----
    args,       \* the arguments, in order: [form, val]
    args0,      \* the arguments as they were handed to execute
    aParams,    \* stmt::Params of the statement
    aPhase,     \* binding, bound, executed, done, failed
    aPos,       \* the position the next argument is bound at
    spans,      \* per bound argument, <<pos, next>>: where it was bound and what bind_to returned
    aStmt,      \* what the executed statement did with its placeholders
    aCode,      \* the error code execute returned, 0 for success
    \* ---- Columns::new (cols.rs) ----
    cols,       \* Columns::cols : the Vec<Column> built so far
    numColumns, \* num_columns : OCI_ATTR_PARAM_COUNT of the statement
    colsRes,    \* what Columns::new returned: "none" while it runs, "ok", "err"; "dropped"
                \* once the Columns it returned is dropped
    names,      \* Columns::names : the HashMap from a column's name to its index
    vec,        \* the memory of the Vec cols: its capacity and how often it was reallocated
    lookup,     \* the last col_index or col_mut call and what it returned
    \* ---- the buffer size of one column (cols.rs, Columns::new) ----
    szIn,       \* what the size is computed from: the column, the environment, the build
    szOut,      \* the computed sizes; None before the computation
    \* ---- Varchar (varchar.rs) ----
    vtxt,       \* the OCIString of the Varchar operated on
    vsrc,       \* the OCIString of the Varchar that from_varchar copies
    vRes,       \* the last Varchar operation and what it was given
    \* ---- session pool (blocking.rs, the example) ----
    pool,       \* the SessionPool the example holds: "none", "created", "failed"
    cfg,        \* the arguments create_session_pool was called with
    drv,        \* the driver's pool object: [min, max, incr, open, busy]
    createCalls,\* calls of session_pool_create
    pc,         \* worker -> where the worker thread is
    getCalls,   \* worker -> calls of session_get made for its request
    holds,      \* worker -> the session it holds: "none", "pooled", "standalone"
    driverErr,  \* worker -> session_get reported an error to it
    waited      \* worker -> its session_get found every session checked out

colsVars == <<colBuf, colInd, rowNum, gets, okGets, prevRowOk, owned, lastRes>>
nvlVars  == <<nvl, params, phase, bindPos, nextPos, nvlRes>>
argVars  == <<args, args0, aParams, aPhase, aPos, spans, aStmt, aCode>>
columnsVars == <<cols, numColumns, colsRes, names, vec, lookup>>
sizeVars == <<szIn, szOut>>
varcharVars == <<vtxt, vsrc, vRes>>
poolVars == <<pool, cfg, drv, createCalls, pc, getCalls, holds, driverErr, waited>>
vars     == <<colsVars, nvlVars, poolVars, argVars, columnsVars, sizeVars, varcharVars>>

-----------------------------------------------------------------------------
(* Bounds *)
MaxRows == 3
MaxGets == 3
MaxVal == 1
MaxPos == 2
NumWorkers == 3
MaxPoolMax == 2
MaxCols == 2
HalfBits == 2
MaxLen == 2

-----------------------------------------------------------------------------
(***************************************************************************)
(* Column buffers                                                          *)
(***************************************************************************)

\* The variants of enum ColumnBuffer.
ColumnBufferKinds ==
    { "Text", "CLOB", "Binary", "BLOB", "BFile", "Number", "Date", "Timestamp",
      "TimestampTZ", "TimestampLTZ", "IntervalYM", "IntervalDS", "Float", "Double",
      "Rowid", "Cursor" }

LobKinds == { "CLOB", "BLOB", "BFile" }
DescriptorBackedKinds == LobKinds \cup { "Rowid", "Cursor" }

\* The value of the indicator for a NULL, see the documentation of Column::ind.
OCI_IND_NULL == -1

\* The indicator values the driver writes: truncated-oversize, NULL, intact, truncated.
Indicators == { -2, OCI_IND_NULL, 0, 1 }

\* Descriptor::new / Handle::new / RowID::new: a descriptor that refers to nothing yet.
NewDescriptor == [init |-> FALSE, row |-> 0]

\* What the driver leaves in the buffer when it fetches row r: the column's
\* value of that row (for a descriptor, the locator of that row's object).
Fetched(r) == [init |-> TRUE, row |-> r]

\* lob::is_initialized / Descriptor<OCIRowid>::is_initialized
is_initialized(d) == d.init

\* Descriptor::swap / Handle::swap: exchanges what the two own; <<buffer's, other's>> afterwards.
swap(mine, other) == <<other, mine>>

\* Option<T>
None    == <<>>
Some(v) == <<v>>

\* Result<T>
Ok(v)    == [ok |-> TRUE,  msg |-> "",  val |-> <<v>>]
Err(msg) == [ok |-> FALSE, msg |-> msg, val |-> <<>>]

\* Column::new
ColumnNew(kind) == [kind |-> kind, data |-> NewDescriptor]

\* A test that takes every negative indicator for a NULL
ColumnIsNullNegative(ind) == ind < 0

\* Column::is_null
ColumnIsNull(ind) == ind = OCI_IND_NULL


-----------------------------------------------------------------------------
(***************************************************************************)
(* FromSql::value for the target types.  Each operator takes the column    *)
(* buffer (and, where the code allocates a placeholder, whether that       *)
(* allocation succeeds; where it calls a formatter or converter of the     *)
(* driver, whether that call succeeds) and gives the Result returned and   *)
(* the buffer as the call leaves it.  A value returned is a record of the  *)
(* type it has, the function that produced it and the data it was made of. *)
(***************************************************************************)

\* The application types a column is converted to.
LobTargets == { "CLOB", "BLOB", "BFile" }
TextTargets == { "String", "&str" }
NumericTargets == { "Integer", "f32", "f64", "Number" }
TimestampTargets == { "Timestamp", "TimestampTZ", "TimestampLTZ" }
Targets ==
    LobTargets \cup { "RowID", "Cursor" } \cup TextTargets \cup { "Varchar", "&[u8]" }
    \cup NumericTargets \cup { "Date", "IntervalYM", "IntervalDS" } \cup TimestampTargets

\* The ColumnBuffer variant each impl_from_lob! instance matches.
LobVariant(target) == target

\* The error of a failed Descriptor::new / Handle::new / RowID::new.
AllocError == "cannot allocate"

\* The error of a failed formatter or converter of the driver.
DriverError == "OCI error"

\* A value of type `as` that function `by` made of the buffer's data
Made(as, by, val) == [as |-> as, by |-> by, of |-> val.data]

\* The Result of a driver function that can fail
Try(ok, v) == IF ok THEN Ok(v) ELSE Err(DriverError)

\* The function impl FromSql for String calls for each variant it matches
ToText(kind) ==
    CASE kind = "Text"         -> "varchar::to_string"
      [] kind = "Number"       -> "number::to_string TM"
      [] kind = "Date"         -> "date::to_string YYYY-MM-DD HH24::MI:SS"
      [] kind = "Timestamp"    -> "timestamp::to_string YYYY-MM-DD HH24:MI:SSXFF"
      [] kind = "TimestampTZ"  -> "timestamp::to_string YYYY-MM-DD HH24:MI:SSXFF TZH:TZM"
      [] kind = "TimestampLTZ" -> "timestamp::to_string YYYY-MM-DD HH24:MI:SSXFF TZH:TZM"
      [] kind = "IntervalYM"   -> "interval::to_string 4 3"
      [] kind = "IntervalDS"   -> "interval::to_string 9 5"
      [] kind = "Float"        -> "f32::to_string"
      [] kind = "Double"       -> "f64::to_string"
      [] kind = "Rowid"        -> "RowID::to_string"

\* The variants impl FromSql for String matches, and of these the ones whose
\* text is made without a call that can fail
StringKinds ==
    { "Text", "Number", "Date", "Timestamp", "TimestampTZ", "TimestampLTZ",
      "IntervalYM", "IntervalDS", "Float", "Double", "Rowid" }
InfallibleText == { "Text", "Float", "Double" }

\* A String conversion with a formatter for every variant
FromSqlStringAll(val, fmtOk) ==
    IF val.kind \in StringKinds
    THEN [res |-> Try(fmtOk \/ val.kind \in InfallibleText,
                      Made("String", ToText(val.kind), val)),
          buf |-> val]
    ELSE [res |-> Try(fmtOk, Made("String", "to_string", val)), buf |-> val]

\* A String conversion that takes the descriptor of a Rowid out of the buffer
FromSqlStringTakes(val, fmtOk) ==
    IF val.kind \in StringKinds
    THEN [res |-> Try(fmtOk \/ val.kind \in InfallibleText,
                      Made("String", ToText(val.kind), val)),
          buf |-> IF val.kind = "Rowid" THEN [val EXCEPT !.data = NewDescriptor] ELSE val]
    ELSE [res |-> Err("cannot convert"), buf |-> val]

\* impl FromSql for String
FromSqlString(val, fmtOk) ==
    IF val.kind \in StringKinds
    THEN [res |-> Try(fmtOk \/ val.kind \in InfallibleText,
                      Made("String", ToText(val.kind), val)),
          buf |-> val]
    ELSE [res |-> Err("cannot convert"), buf |-> val]

\* impl FromSql for Varchar: the text is copied into a new OCIString, made by
\* the String conversion unless the buffer is a Text.  drvOk: the calls of the
\* driver the conversion makes succeed (the error is that of the first one).
FromSqlVarchar(val, drvOk) ==
    IF val.kind = "Text"
    THEN [res |-> IF drvOk THEN Ok(Made("Varchar", "Varchar::from_ocistring", val))
                  ELSE Err(AllocError),
          buf |-> val]
    ELSE LET text == FromSqlString(val, drvOk)
         IN  IF ~text.res.ok
             THEN text
             ELSE [res |-> IF drvOk THEN Ok(Made("Varchar", text.res.val[1].by, val))
                           ELSE Err(AllocError),
                   buf |-> val]

\* impl FromSql for &str
FromSqlStr(val) ==
    IF val.kind = "Text"
    THEN [res |-> Ok(Made("&str", "varchar::as_str", val)), buf |-> val]
    ELSE [res |-> Err("cannot convert"), buf |-> val]

\* impl FromSql for &[u8]
FromSqlBytes(val) ==
    IF val.kind = "Binary"
    THEN [res |-> Ok(Made("&[u8]", "raw::as_bytes", val)), buf |-> val]
    ELSE [res |-> Err("cannot convert"), buf |-> val]

\* The variants the conversions to f32, f64 and Number match
NumericKinds == { "Number", "Float", "Double", "IntervalYM", "IntervalDS" }

\* An integer conversion that matches what the floating point ones match
FromSqlIntegerWide(val, convOk) ==
    IF val.kind \in NumericKinds
    THEN [res |-> Try(convOk, Made("Integer", "from_number", val)), buf |-> val]
    ELSE [res |-> Err("cannot convert"), buf |-> val]

\* impl<T: number::Integer> FromSql for T
FromSqlInteger(val, convOk) ==
    IF val.kind = "Number"
    THEN [res |-> Try(convOk, Made("Integer", "from_number", val)), buf |-> val]
    ELSE [res |-> Err("cannot convert"), buf |-> val]

\* impl FromSql for f32 and for f64 (target names which)
FromSqlReal(target, val, convOk) ==
    CASE val.kind = "Number" ->
            [res |-> Try(convOk, Made(target, "number::to_real", val)), buf |-> val]
      [] val.kind \in { "Float", "Double" } ->
            [res |-> Ok(Made(target, "as " \o target, val)), buf |-> val]
      [] val.kind \in { "IntervalYM", "IntervalDS" } ->
            [res |-> Try(convOk, Made(target, "interval::to_number, number::to_real", val)),
             buf |-> val]
      [] OTHER -> [res |-> Err("cannot convert"), buf |-> val]

\* impl FromSql for number::Number
FromSqlNumber(val, convOk) ==
    CASE val.kind = "Number" ->
            [res |-> Try(convOk, Made("Number", "number::from_number", val)), buf |-> val]
      [] val.kind \in { "Float", "Double" } ->
            [res |-> Try(convOk, Made("Number", "Number::from_real", val)), buf |-> val]
      [] val.kind \in { "IntervalYM", "IntervalDS" } ->
            [res |-> Try(convOk, Made("Number", "interval::to_number, number::new_number", val)),
             buf |-> val]
      [] OTHER -> [res |-> Err("cannot convert"), buf |-> val]

\* impl FromSql for Date
FromSqlDate(val, convOk) ==
    IF val.kind = "Date"
    THEN [res |-> Try(convOk, Made("Date", "date::from_date", val)), buf |-> val]
    ELSE [res |-> Err("cannot convert"), buf |-> val]

\* impl FromSql for Timestamp, TimestampTZ and TimestampLTZ (target names
\* which): its own variant is copied, the two others are converted
FromSqlTimestamp(target, val, convOk) ==
    IF val.kind \in TimestampTargets
    THEN [res |-> Try(convOk,
                      Made(target,
                           IF val.kind = target THEN "timestamp::from_timestamp"
                           ELSE "timestamp::convert_into",
                           val)),
          buf |-> val]
    ELSE [res |-> Err("cannot convert"), buf |-> val]

\* impl FromSql for IntervalYM and for IntervalDS (target names which)
FromSqlInterval(target, val, convOk) ==
    IF val.kind = target
    THEN [res |-> Try(convOk, Made(target, "interval::from_interval", val)), buf |-> val]
    ELSE [res |-> Err("cannot convert"), buf |-> val]

\* impl FromSql for Cursor
FromSqlCursor(val, allocOk) ==
    IF val.kind = "Cursor"
    THEN IF allocOk
         THEN LET ref_cursor == NewDescriptor
                  swapped    == swap(val.data, ref_cursor)
              IN  [res |-> Ok([as |-> "Cursor", of |-> swapped[2]]),
                   buf |-> [val EXCEPT !.data = swapped[1]]]
         ELSE [res |-> Err(AllocError), buf |-> val]
    ELSE [res |-> Err("cannot convert"), buf |-> val]

\* A conversion that hands out a second owner of the locator: no swap.
FromSqlLobNoSwap(var, val, allocOk) ==
    IF val.kind = var
    THEN IF is_initialized(val.data)
         THEN IF allocOk
              THEN [res |-> Ok([as |-> var, of |-> val.data]), buf |-> val]
              ELSE [res |-> Err(AllocError), buf |-> val]
         ELSE [res |-> Err("already consumed"), buf |-> val]
    ELSE [res |-> Err("cannot convert"), buf |-> val]

\* A LOB conversion that takes the locator of any LOB variant
FromSqlLobAnyVariant(var, val, allocOk) ==
    IF val.kind \in LobKinds
    THEN IF is_initialized(val.data)
         THEN IF allocOk
              THEN LET loc     == NewDescriptor
                       swapped == swap(val.data, loc)
                   IN  [res |-> Ok([as |-> var, of |-> swapped[2]]),
                        buf |-> [val EXCEPT !.data = swapped[1]]]
              ELSE [res |-> Err(AllocError), buf |-> val]
         ELSE [res |-> Err("already consumed"), buf |-> val]
    ELSE [res |-> Err("cannot convert"), buf |-> val]

\* A LOB conversion that swaps the locator out before it allocates the new one
FromSqlLobSwapFirst(var, val, allocOk) ==
    IF val.kind = var
    THEN IF is_initialized(val.data)
         THEN LET loc     == NewDescriptor
                  swapped == swap(val.data, loc)
              IN  [res |-> IF allocOk THEN Ok([as |-> var, of |-> swapped[2]])
                           ELSE Err(AllocError),
                   buf |-> [val EXCEPT !.data = swapped[1]]]
         ELSE [res |-> Err("already consumed"), buf |-> val]
    ELSE [res |-> Err("cannot convert"), buf |-> val]

\* impl_from_lob!: impl FromSql for LOB<T>, var is the variant it matches
FromSqlLob(var, val, allocOk) ==
    IF val.kind = var
    THEN IF is_initialized(val.data)
         THEN IF allocOk
              THEN LET loc     == NewDescriptor
                       swapped == swap(val.data, loc)
                   IN  [res |-> Ok([as |-> var, of |-> swapped[2]]),
                        buf |-> [val EXCEPT !.data = swapped[1]]]
              ELSE [res |-> Err(AllocError), buf |-> val]
         ELSE [res |-> Err("already consumed"), buf |-> val]
    ELSE [res |-> Err("cannot convert"), buf |-> val]

\* A RowID conversion without the is_initialized test (as the Cursor one is written).
FromSqlRowIDNoTest(val, allocOk) ==
    IF val.kind = "Rowid"
    THEN IF allocOk
         THEN LET res     == NewDescriptor
                  swapped == swap(val.data, res)
              IN  [res |-> Ok([as |-> "RowID", of |-> swapped[2]]),
                   buf |-> [val EXCEPT !.data = swapped[1]]]
         ELSE [res |-> Err(AllocError), buf |-> val]
    ELSE [res |-> Err("cannot convert"), buf |-> val]

\* impl FromSql for RowID
FromSqlRowID(val, allocOk) ==
    IF val.kind = "Rowid"
    THEN IF is_initialized(val.data)
         THEN IF allocOk
              THEN LET res     == NewDescriptor
                       swapped == swap(val.data, res)
                   IN  [res |-> Ok([as |-> "RowID", of |-> swapped[2]]),
                        buf |-> [val EXCEPT !.data = swapped[1]]]
              ELSE [res |-> Err(AllocError), buf |-> val]
         ELSE [res |-> Err("already consumed"), buf |-> val]
    ELSE [res |-> Err("cannot convert"), buf |-> val]

\* FromSql::value, dispatched on the requested type.  allocOk: the calls of
\* the driver the conversion makes (an allocation, a formatter) succeed.
FromSqlValue(target, val, allocOk) ==
    CASE target = "String"    -> FromSqlString(val, allocOk)
      [] target = "Varchar"   -> FromSqlVarchar(val, allocOk)
      [] target = "&str"      -> FromSqlStr(val)
      [] target = "&[u8]"     -> FromSqlBytes(val)
      [] target = "Integer"   -> FromSqlInteger(val, allocOk)
      [] target \in { "f32", "f64" } -> FromSqlReal(target, val, allocOk)
      [] target = "Number"    -> FromSqlNumber(val, allocOk)
      [] target = "Date"      -> FromSqlDate(val, allocOk)
      [] target \in TimestampTargets -> FromSqlTimestamp(target, val, allocOk)
      [] target \in { "IntervalYM", "IntervalDS" } -> FromSqlInterval(target, val, allocOk)
      [] target = "Cursor"    -> FromSqlCursor(val, allocOk)
      [] target = "RowID"     -> FromSqlRowID(val, allocOk)
      [] target \in LobTargets -> FromSqlLob(LobVariant(target), val, allocOk)

\* RowID::to_string: the text of the ROWID the descriptor holds, as the String
\* conversion of the column makes it
RowIDToString(rowid) == [as |-> "String", by |-> ToText("Rowid"), of |-> rowid.of]

\* The strong type of a descriptor-backed column kind.
OwnTarget(kind) ==
    CASE kind \in LobKinds -> kind
      [] kind = "Rowid"    -> "RowID"
      [] kind = "Cursor"   -> "Cursor"
      [] OTHER             -> "none"

-----------------------------------------------------------------------------
(***************************************************************************)
(* One column of a result set                                              *)
(***************************************************************************)

\* The error of Row::get of a NULL into a type that is not an Option
NullError == "column is null"

NoRes == [target |-> "none", optional |-> FALSE, null |-> FALSE, allocOk |-> FALSE,
          prevOk |-> 0, before |-> ColumnNew("Text"), res |-> Err("")]

InitCols ==
    /\ colBuf \in { ColumnNew(k) : k \in ColumnBufferKinds }
    /\ colInd = 0
    /\ rowNum = 0
    /\ gets = 0
    /\ okGets = 0
    /\ prevRowOk = 0
    /\ owned = <<>>
    /\ lastRes = NoRes

\* Rows::next: the driver writes the next row into the registered locations.
\* A NULL leaves the output variable as it was.
Fetch ==
    /\ rowNum < MaxRows
    /\ \E ind \in Indicators :
          /\ colInd' = ind
          /\ colBuf' = IF ColumnIsNull(ind) THEN colBuf
                       ELSE [colBuf EXCEPT !.data = Fetched(rowNum + 1)]
    /\ rowNum' = rowNum + 1
    /\ gets' = 0
    /\ okGets' = 0
    /\ prevRowOk' = okGets
    /\ owned' = <<>>
    /\ lastRes' = NoRes

\* Row::get::<T> and Row::get::<Option<T>> (optional): a NULL is an error for
\* the former and Ok(None) for the latter, neither calling FromSql::value;
\* otherwise FromSql::value of the buffer (wrapped in Some for the latter).
Get(target, optional, allocOk) ==
    /\ rowNum >= 1
    /\ gets < MaxGets
    /\ gets' = gets + 1
    /\ UNCHANGED <<colInd, rowNum, prevRowOk>>
    /\ IF ColumnIsNull(colInd)
       THEN /\ lastRes' = [target |-> target, optional |-> optional, null |-> TRUE,
                           allocOk |-> allocOk, prevOk |-> okGets, before |-> colBuf,
                           res |-> IF optional THEN Ok(None) ELSE Err(NullError)]
            /\ UNCHANGED <<colBuf, okGets, owned>>
       ELSE LET r == FromSqlValue(target, colBuf, allocOk)
                handle == r.res.ok /\ target = OwnTarget(colBuf.kind)
            IN  /\ lastRes' = [target |-> target, optional |-> optional, null |-> FALSE,
                               allocOk |-> allocOk, prevOk |-> okGets, before |-> colBuf,
                               res |-> r.res]
                /\ colBuf' = r.buf
                /\ okGets' = IF handle THEN okGets + 1 ELSE okGets
                /\ owned' = IF handle THEN Append(owned, r.res.val[1]) ELSE owned

NextCols ==
    \/ Fetch /\ UNCHANGED <<nvlVars, poolVars, argVars, columnsVars, sizeVars, varcharVars>>
    \/ \E target \in Targets, optional \in BOOLEAN, allocOk \in BOOLEAN :
          Get(target, optional, allocOk) /\ UNCHANGED <<nvlVars, poolVars, argVars, columnsVars, sizeVars, varcharVars>>


-----------------------------------------------------------------------------
(***************************************************************************)
(* Columns::new: the projection of a statement is described column by      *)
(* column; each column gets the buffer ColumnBuffer::new allocates for its *)
(* OCI_ATTR_DATA_TYPE, and ColumnInfo::data_type reports its type from the *)
(* same attribute.  The columns are kept in a vector and found by name     *)
(* through a map; the sizes of their buffers are modelled further below.   *)
(***************************************************************************)

\* OCI_ATTR_DATA_TYPE of a column: the codes the two matches name, and
\* SQLT_NTY for the codes neither of them names.
WireCodes ==
    { "SQLT_CHR", "SQLT_AFC", "SQLT_LNG", "SQLT_BIN", "SQLT_LBI", "SQLT_NUM",
      "SQLT_IBFLOAT", "SQLT_IBDOUBLE", "SQLT_DAT", "SQLT_TIMESTAMP",
      "SQLT_TIMESTAMP_TZ", "SQLT_TIMESTAMP_LTZ", "SQLT_INTERVAL_YM",
      "SQLT_INTERVAL_DS", "SQLT_CLOB", "SQLT_BLOB", "SQLT_BFILE", "SQLT_RDD",
      "SQLT_RSET", "SQLT_NTY" }

\* OCI_ATTR_CHARSET_FORM of a column: only character data is in the national charset
CharsetForms(code) ==
    IF code \in { "SQLT_CHR", "SQLT_AFC", "SQLT_CLOB" }
    THEN { "SQLCS_IMPLICIT", "SQLCS_NCHAR" }
    ELSE { "SQLCS_IMPLICIT" }

\* The variants of enum ColumnType.
ColumnTypes ==
    { "Unknown", "Char", "NChar", "Varchar", "NVarchar", "Clob", "NClob", "Long",
      "Raw", "LongRaw", "Blob", "Number", "BinaryFloat", "BinaryDouble", "Date",
      "Timestamp", "TimestampWithTimeZone", "TimestampWithLocalTimeZone",
      "IntervalYearToMonth", "IntervalDayToSecond", "RowID", "Cursor" }

\* ColumnInfo::data_type
data_type(code, csform) ==
    CASE code = "SQLT_RDD"  -> "RowID"
      [] code = "SQLT_CHR"  -> IF csform = "SQLCS_NCHAR" THEN "NVarchar" ELSE "Varchar"
      [] code = "SQLT_AFC"  -> IF csform = "SQLCS_NCHAR" THEN "NChar" ELSE "Char"
      [] code = "SQLT_CLOB" -> IF csform = "SQLCS_NCHAR" THEN "NClob" ELSE "Clob"
      [] code = "SQLT_LNG"  -> "Long"
      [] code = "SQLT_BIN"  -> "Raw"
      [] code = "SQLT_LBI"  -> "LongRaw"
      [] code = "SQLT_BLOB" -> "Blob"
      [] code = "SQLT_NUM"  -> "Number"
      [] code = "SQLT_DAT"  -> "Date"
      [] code = "SQLT_TIMESTAMP"     -> "Timestamp"
      [] code = "SQLT_TIMESTAMP_TZ"  -> "TimestampWithTimeZone"
      [] code = "SQLT_TIMESTAMP_LTZ" -> "TimestampWithLocalTimeZone"
      [] code = "SQLT_INTERVAL_YM"   -> "IntervalYearToMonth"
      [] code = "SQLT_INTERVAL_DS"   -> "IntervalDayToSecond"
      [] code = "SQLT_IBFLOAT"  -> "BinaryFloat"
      [] code = "SQLT_IBDOUBLE" -> "BinaryDouble"
      [] code = "SQLT_RSET" -> "Cursor"
      [] OTHER -> "Unknown"

\* The variant ColumnBuffer::new matches the code to
BufferVariant(code) ==
    CASE code = "SQLT_DAT" -> "Date"
      [] code = "SQLT_TIMESTAMP"     -> "Timestamp"
      [] code = "SQLT_TIMESTAMP_TZ"  -> "TimestampTZ"
      [] code = "SQLT_TIMESTAMP_LTZ" -> "TimestampLTZ"
      [] code = "SQLT_INTERVAL_YM"   -> "IntervalYM"
      [] code = "SQLT_INTERVAL_DS"   -> "IntervalDS"
      [] code = "SQLT_NUM"      -> "Number"
      [] code = "SQLT_IBFLOAT"  -> "Float"
      [] code = "SQLT_IBDOUBLE" -> "Double"
      [] code \in { "SQLT_BIN", "SQLT_LBI" } -> "Binary"
      [] code = "SQLT_CLOB"  -> "CLOB"
      [] code = "SQLT_BLOB"  -> "BLOB"
      [] code = "SQLT_BFILE" -> "BFile"
      [] code = "SQLT_RDD"   -> "Rowid"
      [] code = "SQLT_RSET"  -> "Cursor"
      [] OTHER -> "Text"

\* The variants ColumnBuffer::new builds without a call that can fail
InfallibleVariants == { "Date", "Number", "Float", "Double" }

\* ColumnBuffer::new.  allocOk: the descriptor, handle, OCIString or OCIRaw
\* the variant holds is allocated.
ColumnBufferNew(code, allocOk) ==
    IF allocOk \/ BufferVariant(code) \in InfallibleVariants
    THEN Ok(BufferVariant(code))
    ELSE Err(AllocError)

\* Where an iteration of the loop of Columns::new can return an error
FailPoints == { "none", "param", "buffer", "define", "name" }

\* OCI_ATTR_NAME of the columns of a projection; two columns can have the same
ColumnNames == { "A", "B" }

\* A name no column of the projection has
AbsentName == "C"

\* The columns a projection is made of: one of every type under the first
\* name, and a text, a raw and a number column under the second
ColumnInfos ==
    { [code |-> code, csform |-> csform, name |-> "A"] :
          <<code, csform>> \in { p \in WireCodes \X { "SQLCS_IMPLICIT", "SQLCS_NCHAR" } :
                                    p[2] \in CharsetForms(p[1]) } }
    \cup { [code |-> code, csform |-> "SQLCS_IMPLICIT", name |-> "B"] :
              code \in { "SQLT_CHR", "SQLT_BIN", "SQLT_NUM" } }

\* Vec::new(): a vector without memory
VecNew(n) == [cap |-> 0, alloc |-> 0]

\* Vec::with_capacity(num_columns): memory for that many elements.
\* alloc counts the reallocations of the vector's memory.
VecWithCapacity(n) == [cap |-> n, alloc |-> 0]

\* Vec::push on a vector of len elements: the memory is reallocated, and the
\* elements move, only when the vector is full
VecPush(v, len) ==
    IF len < v.cap THEN v
    ELSE [cap |-> IF 2 * v.cap > 4 THEN 2 * v.cap ELSE 4, alloc |-> v.alloc + 1]

\* HashMap::new()
NoNames == << >>

\* HashMap::insert that keeps the value a key already has
HashMapInsertKeepFirst(map, key, value) ==
    [k \in DOMAIN map \cup { key } |-> IF k \in DOMAIN map THEN map[k] ELSE value]

\* HashMap::insert: the value replaces the one the key had
HashMapInsert(map, key, value) ==
    [k \in DOMAIN map \cup { key } |-> IF k = key THEN value ELSE map[k]]

\* Columns::col_index
col_index(map, name) ==
    IF name \in DOMAIN map THEN Some(map[name]) ELSE None

\* Columns::col and Columns::col_mut: the column at the (0-based) index
col(columns, index) ==
    IF index < Len(columns) THEN Some(columns[index + 1]) ELSE None

\* The buffers that hold driver memory the owner has to free
OwnedMemoryVariants == { "Text", "Binary" }

\* ColumnBuffer::drop: varchar::free or raw::free of a Text or Binary buffer
ColumnBufferDrop(column) ==
    IF column.buf \in OwnedMemoryVariants
    THEN [column EXCEPT !.freed = @ + 1]
    ELSE column

\* The drop of a Column that is not in a Columns: nothing calls ColumnBuffer::drop
ColumnDropGlue(column) == column

NoLookup == [op |-> "none", name |-> "", index |-> 0, res |-> None]

InitColumns ==
    /\ cols = <<>>
    /\ numColumns \in 1 .. MaxCols
    /\ colsRes = "none"
    /\ names = NoNames
    /\ vec = VecWithCapacity(numColumns)
    /\ lookup = NoLookup

\* One iteration of the loop of Columns::new.  define: define_by_pos is called
\* in the iteration.
Describe(code, csform, name, fail, define) ==
    /\ colsRes = "none"
    /\ Len(cols) < numColumns
    /\ LET i == Len(cols)
           buf == ColumnBufferNew(code, fail # "buffer")
           pushed == VecPush(vec, i)
           defined == define /\ fail # "define"
           column == [buf |-> IF buf.ok THEN buf.val[1] ELSE "none",
                      inf |-> [code |-> code, csform |-> csform, name |-> name],
                      defined |-> defined,
                      at |-> IF defined THEN Some(<<pushed.alloc, i>>) ELSE None,
                      done |-> fail = "none",
                      freed |-> 0]
       IN  IF fail = "param" \/ ~buf.ok
           THEN /\ colsRes' = "err"
                /\ cols' = [k \in 1 .. Len(cols) |-> ColumnDropGlue(cols[k])]
                /\ UNCHANGED <<names, vec>>
           ELSE IF fail \in { "define", "name" }
           THEN /\ colsRes' = "err"
                /\ cols' = [k \in 1 .. i + 1 |-> ColumnDropGlue(Append(cols, column)[k])]
                /\ vec' = pushed
                /\ UNCHANGED names
           ELSE /\ cols' = Append(cols, column)
                /\ vec' = pushed
                /\ names' = HashMapInsert(names, name, i)
                /\ colsRes' = IF i + 1 = numColumns THEN "ok" ELSE "none"
    /\ UNCHANGED <<numColumns, lookup>>

\* An iteration that leaves the define of the column to a later time
DescribeColumnNoDefine(code, csform, name, fail) ==
    Describe(code, csform, name, fail, FALSE)

\* Columns::new, one iteration of its loop, for a column with the given
\* OCI_ATTR_DATA_TYPE, OCI_ATTR_CHARSET_FORM and OCI_ATTR_NAME.  The iteration
\* gets the column's parameter descriptor, allocates the buffer and pushes the
\* column, defines the pushed column as the output of its position and records
\* the column's name; any of these can fail, which `?` returns, dropping the
\* vector built so far.  After the last column Columns::new returns Ok.
DescribeColumn(code, csform, name, fail) ==
    Describe(code, csform, name, fail, TRUE)

\* Columns::col_index of a name, of the projection or not
ColIndex(name) ==
    /\ colsRes = "ok"
    /\ lookup' = [op |-> "col_index", name |-> name, index |-> 0,
                  res |-> col_index(names, name)]
    /\ UNCHANGED <<cols, numColumns, colsRes, names, vec>>

\* Columns::col_mut of an index, in bounds or not, through which a conversion
\* reads the column and swaps its handle in place
ColMut(index) ==
    /\ colsRes = "ok"
    /\ lookup' = [op |-> "col_mut", name |-> "", index |-> index,
                  res |-> IF col(cols, index) = None THEN None ELSE Some(index)]
    /\ UNCHANGED <<cols, numColumns, colsRes, names, vec>>

\* Drop for Columns
DropColumns ==
    /\ colsRes = "ok"
    /\ cols' = [k \in 1 .. Len(cols) |-> ColumnBufferDrop(cols[k])]
    /\ colsRes' = "dropped"
    /\ lookup' = NoLookup
    /\ UNCHANGED <<numColumns, names, vec>>

NextColumns ==
    \/ \E info \in ColumnInfos, fail \in FailPoints :
          DescribeColumn(info.code, info.csform, info.name, fail)
          /\ UNCHANGED <<colsVars, nvlVars, poolVars, argVars, sizeVars, varcharVars>>
    \/ \E name \in ColumnNames \cup { AbsentName } :
          ColIndex(name) /\ UNCHANGED <<colsVars, nvlVars, poolVars, argVars, sizeVars, varcharVars>>
    \/ \E index \in 0 .. numColumns :
          ColMut(index) /\ UNCHANGED <<colsVars, nvlVars, poolVars, argVars, sizeVars, varcharVars>>
    \/ DropColumns /\ UNCHANGED <<colsVars, nvlVars, poolVars, argVars, sizeVars, varcharVars>>

-----------------------------------------------------------------------------
(***************************************************************************)
(* stmt::Params and the bind of the wrapped type T (an integer), as the    *)
(* Nvl code uses them                                                      *)
(***************************************************************************)

Values    == 0 .. MaxVal
Positions == 1 .. MaxPos

\* T::sql_type() and T::sql_null_type()
SqlType     == "SQLT_INT"
SqlNullType == "SQLT_INT as NULL"

\* Params with nothing bound
NoParams == [pos \in Positions |-> None]

\* Params::bind: registers the placeholder with its buffer; the indicator of a
\* position bound without a buffer is NULL.
bind(p, pos, sqlt, buf) ==
    [p EXCEPT ![pos] = Some([sqlt |-> sqlt, buf |-> buf,
                             ind |-> IF buf = None THEN OCI_IND_NULL ELSE 0])]

\* Params::bind_null: the placeholder is an SQL NULL of the given type, no buffer
bind_null(p, pos, sqlt) == bind(p, pos, sqlt, None)

\* Params::mark_as_null: the indicator of the position is set to NULL
mark_as_null(p, pos) ==
    IF pos \in Positions /\ p[pos] # None
    THEN [p EXCEPT ![pos] = Some([p[pos][1] EXCEPT !.ind = OCI_IND_NULL])]
    ELSE p

\* Params::is_null: whether the indicator of the position is NULL; nothing
\* when no indicator is recorded for the position
is_null(p, pos) ==
    IF pos \in Positions /\ p[pos] # None
    THEN Some(p[pos][1].ind = OCI_IND_NULL)
    ELSE None

\* Option::unwrap_or
unwrap_or(opt, default) == IF opt = None THEN default ELSE opt[1]

\* T::bind_to: binds the value's own memory at pos, the next position is pos + 1
TBindTo(val, pos, p) == [params |-> bind(p, pos, SqlType, Some(val)), next |-> pos + 1]

\* T::update_from_bind: an integer has nothing to adjust
TUpdateFromBind(val, pos, p) == val

-----------------------------------------------------------------------------
(***************************************************************************)
(* Nvl<T>                                                                  *)
(***************************************************************************)

\* Nvl::new
NvlNew(value) == Some(value)

\* Nvl::as_ref
NvlAsRef(self) == self

\* Nvl::insert: the new state and the value the returned reference points to
NvlInsert(self, value) == [self |-> Some(value), ret |-> value]

\* replace returning what it stored
NvlReplaceReturnsNew(self, value) == [self |-> Some(value), ret |-> Some(value)]

\* Nvl::replace: the new state and the value returned
NvlReplace(self, value) == [self |-> Some(value), ret |-> self]

\* bind_to of a held value that returns the position it was given
NvlMutBindToSamePos(self, pos, p, bindOk) ==
    IF self # None
    THEN IF bindOk
         THEN LET inner == TBindTo(self[1], pos, p)
              IN  [ok |-> TRUE, params |-> mark_as_null(inner.params, pos), next |-> pos]
         ELSE [ok |-> FALSE, params |-> p, next |-> pos]
    ELSE IF bindOk
         THEN [ok |-> TRUE, params |-> bind_null(p, pos, SqlNullType), next |-> pos + 1]
         ELSE [ok |-> FALSE, params |-> p, next |-> pos]

\* bind_to without mark_as_null
NvlMutBindToNoMark(self, pos, p, bindOk) ==
    IF self # None
    THEN IF bindOk
         THEN LET inner == TBindTo(self[1], pos, p)
              IN  [ok |-> TRUE, params |-> inner.params, next |-> inner.next]
         ELSE [ok |-> FALSE, params |-> p, next |-> pos]
    ELSE IF bindOk
         THEN [ok |-> TRUE, params |-> bind_null(p, pos, SqlNullType), next |-> pos + 1]
         ELSE [ok |-> FALSE, params |-> p, next |-> pos]

\* impl ToSql for &mut Nvl<T>: bind_to.  bindOk: the driver accepts the bind
\* (a refused bind is returned by `?` before anything else is done).
NvlMutBindTo(self, pos, p, bindOk) ==
    IF self # None
    THEN IF bindOk
         THEN LET inner == TBindTo(self[1], pos, p)
              IN  [ok |-> TRUE, params |-> mark_as_null(inner.params, pos), next |-> inner.next]
         ELSE [ok |-> FALSE, params |-> p, next |-> pos]
    ELSE IF bindOk
         THEN [ok |-> TRUE, params |-> bind_null(p, pos, SqlNullType), next |-> pos + 1]
         ELSE [ok |-> FALSE, params |-> p, next |-> pos]

\* update_from_bind that empties only a wrapper that was bound Empty
NvlMutUpdateFromBindKeeps(self, pos, p) ==
    IF self # None
    THEN Some(TUpdateFromBind(self[1], pos, p))
    ELSE self

\* update_from_bind that takes a position without an indicator as not NULL
NvlMutUpdateFromBindLenient(self, pos, p) ==
    IF unwrap_or(is_null(p, pos), FALSE)
    THEN None
    ELSE IF self # None
         THEN Some(TUpdateFromBind(self[1], pos, p))
         ELSE self

\* impl ToSql for &mut Nvl<T>: update_from_bind
NvlMutUpdateFromBind(self, pos, p) ==
    IF unwrap_or(is_null(p, pos), TRUE)
    THEN None
    ELSE IF self # None
         THEN Some(TUpdateFromBind(self[1], pos, p))
         ELSE self

\* bind_to that binds the held value as the mutable reference does
NvlRefBindToValue(self, pos, p, bindOk) ==
    IF bindOk
    THEN IF self # None
         THEN [ok |-> TRUE, params |-> mark_as_null(TBindTo(self[1], pos, p).params, pos),
               next |-> pos + 1]
         ELSE [ok |-> TRUE, params |-> bind_null(p, pos, SqlNullType), next |-> pos + 1]
    ELSE [ok |-> FALSE, params |-> p, next |-> pos]

\* impl ToSql for Nvl<T> (by value): bind_to
NvlBindTo(self, pos, p, bindOk) ==
    IF bindOk
    THEN [ok |-> TRUE, params |-> bind_null(p, pos, SqlNullType), next |-> pos + 1]
    ELSE [ok |-> FALSE, params |-> p, next |-> pos]

\* impl ToSql for &Nvl<T>: bind_to
NvlRefBindTo(self, pos, p, bindOk) ==
    IF bindOk
    THEN [ok |-> TRUE, params |-> bind_null(p, pos, SqlNullType), next |-> pos + 1]
    ELSE [ok |-> FALSE, params |-> p, next |-> pos]


-----------------------------------------------------------------------------
(***************************************************************************)
(* One Nvl argument of one statement: the application calls its methods    *)
(* while it is not borrowed, binds it by mutable reference, the statement  *)
(* executes, and the argument is updated from its bind.                    *)
(***************************************************************************)

\* ORA-06502, the server's error for an OUT value that does not fit the bound buffer
ORA_06502 == 6502

\* What the statement does with its placeholder: leaves it as bound, sets it
\* to NULL, sets it to a value.
StmtKinds == { "keep", "null", "set" }

NvlResult(op, arg, ret, before, code) ==
    [op |-> op, arg |-> arg, ret |-> ret, before |-> before, code |-> code]

InitNvl ==
    /\ nvl \in { NvlNew(v) : v \in Values }
    /\ params = NoParams
    /\ phase = "idle"
    /\ bindPos = 1
    /\ nextPos = 1
    /\ nvlRes = NvlResult("new", nvl, NvlAsRef(nvl), None, 0)

New(value) ==
    /\ phase = "idle"
    /\ nvl' = NvlNew(value)
    /\ nvlRes' = NvlResult("new", Some(value), NvlAsRef(nvl'), nvl, 0)
    /\ UNCHANGED <<params, phase, bindPos, nextPos>>

Insert(value) ==
    /\ phase = "idle"
    /\ nvl' = NvlInsert(nvl, value).self
    /\ nvlRes' = NvlResult("insert", Some(value), Some(NvlInsert(nvl, value).ret), nvl, 0)
    /\ UNCHANGED <<params, phase, bindPos, nextPos>>

Replace(value) ==
    /\ phase = "idle"
    /\ nvl' = NvlReplace(nvl, value).self
    /\ nvlRes' = NvlResult("replace", Some(value), NvlReplace(nvl, value).ret, nvl, 0)
    /\ UNCHANGED <<params, phase, bindPos, nextPos>>

\* Statement::execute, first part: the argument is bound at pos
Bind(pos, bindOk) ==
    /\ phase = "idle"
    /\ LET b == NvlMutBindTo(nvl, pos, NoParams, bindOk)
       IN  /\ params' = b.params
           /\ nextPos' = b.next
           /\ phase' = IF b.ok THEN "bound" ELSE "idle"
           /\ nvlRes' = NvlResult("bind_to", None, None, nvl, IF b.ok THEN 0 ELSE 1)
    /\ bindPos' = pos
    /\ UNCHANGED nvl

\* Statement::execute, second part: the server runs the statement.  It reads
\* NULL from a position whose indicator is NULL, and writes its result into
\* the bound buffer (the held value's own memory) and the indicator.
Execute(kind, value) ==
    /\ phase = "bound"
    /\ LET b   == params[bindPos][1]
           in  == IF b.ind = OCI_IND_NULL THEN None ELSE b.buf
           out == CASE kind = "keep" -> in
                    [] kind = "null" -> None
                    [] kind = "set"  -> Some(value)
       IN  IF out # None /\ b.buf = None
           THEN /\ phase' = "idle"
                /\ nvlRes' = NvlResult("execute", None, None, nvlRes.before, ORA_06502)
                /\ UNCHANGED <<nvl, params>>
           ELSE /\ phase' = "executed"
                /\ params' = [params EXCEPT ![bindPos] =
                                 Some([b EXCEPT !.ind = IF out = None THEN OCI_IND_NULL ELSE 0,
                                                !.buf = IF out = None THEN b.buf ELSE out])]
                /\ nvl' = IF out = None THEN nvl ELSE out
                /\ nvlRes' = NvlResult("execute", None, out, nvlRes.before, 0)
    /\ UNCHANGED <<bindPos, nextPos>>

\* Statement::execute, last part: the argument is updated from its bind
UpdateFromBind ==
    /\ phase = "executed"
    /\ nvl' = NvlMutUpdateFromBind(nvl, bindPos, params)
    /\ phase' = "idle"
    /\ nvlRes' = NvlResult("update_from_bind", None, NvlAsRef(nvl'), nvlRes.before, 0)
    /\ UNCHANGED <<params, bindPos, nextPos>>

\* ToSql::update_from_bind of the argument called for a position the Params
\* hold no indicator for (a position that nothing was bound at)
UpdateFromBindAt(pos) ==
    /\ phase = "executed"
    /\ is_null(params, pos) = None
    /\ nvl' = NvlMutUpdateFromBind(nvl, pos, params)
    /\ phase' = "idle"
    /\ nvlRes' = NvlResult("update_from_bind_at", Some(pos), NvlAsRef(nvl'), nvlRes.before, 0)
    /\ UNCHANGED <<params, bindPos, nextPos>>

NextNvl ==
    \/ \E value \in Values : New(value) /\ UNCHANGED <<colsVars, poolVars, argVars, columnsVars, sizeVars, varcharVars>>
    \/ \E value \in Values : Insert(value) /\ UNCHANGED <<colsVars, poolVars, argVars, columnsVars, sizeVars, varcharVars>>
    \/ \E value \in Values : Replace(value) /\ UNCHANGED <<colsVars, poolVars, argVars, columnsVars, sizeVars, varcharVars>>
    \/ \E pos \in Positions, bindOk \in BOOLEAN : Bind(pos, bindOk) /\ UNCHANGED <<colsVars, poolVars, argVars, columnsVars, sizeVars, varcharVars>>
    \/ \E kind \in StmtKinds, value \in Values : Execute(kind, value) /\ UNCHANGED <<colsVars, poolVars, argVars, columnsVars, sizeVars, varcharVars>>
    \/ UpdateFromBind /\ UNCHANGED <<colsVars, poolVars, argVars, columnsVars, sizeVars, varcharVars>>
    \/ \E pos \in Positions : UpdateFromBindAt(pos) /\ UNCHANGED <<colsVars, poolVars, argVars, columnsVars, sizeVars, varcharVars>>


-----------------------------------------------------------------------------
(***************************************************************************)
(* Option<T> arguments, as src/tests/option_args.rs uses them              *)
(***************************************************************************)

\* T::default(), the value an owned empty Option gets a buffer from
DefaultValue == 0

\* update_from_bind of an owned Option that never empties it
OptMutUpdateFromBindKeeps(self, pos, p) ==
    IF self # None
    THEN Some(TUpdateFromBind(self[1], pos, p))
    ELSE IF unwrap_or(is_null(p, pos), TRUE) THEN None ELSE p[pos][1].buf

\* impl ToSql for &mut Option<T>: bind_to.  The Option owns its value: a held
\* value is bound with T's own bind, an empty one gets a buffer a value can
\* be stored into and is bound as NULL.
OptMutBindTo(self, pos, p, bindOk) ==
    IF bindOk
    THEN IF self # None
         THEN LET inner == TBindTo(self[1], pos, p)
              IN  [ok |-> TRUE, params |-> inner.params, next |-> inner.next]
         ELSE LET inner == TBindTo(DefaultValue, pos, p)
              IN  [ok |-> TRUE, params |-> mark_as_null(inner.params, pos), next |-> inner.next]
    ELSE [ok |-> FALSE, params |-> p, next |-> pos]

\* impl ToSql for &mut Option<T>: update_from_bind.  None when the indicator
\* reports NULL, the value in the bound buffer otherwise.
OptMutUpdateFromBind(self, pos, p) ==
    IF unwrap_or(is_null(p, pos), TRUE)
    THEN None
    ELSE IF self # None
         THEN Some(TUpdateFromBind(self[1], pos, p))
         ELSE p[pos][1].buf

\* bind_to of an optional reference that provides a buffer when it is empty
OptRefBindToInserts(self, pos, p, bindOk) ==
    IF bindOk
    THEN LET inner == TBindTo(IF self # None THEN self[1] ELSE DefaultValue, pos, p)
         IN  [ok |-> TRUE,
              params |-> IF self # None THEN inner.params ELSE mark_as_null(inner.params, pos),
              next |-> inner.next]
    ELSE [ok |-> FALSE, params |-> p, next |-> pos]

\* impl ToSql for Option<&T>, Option<&mut T>, Option<&str>: bind_to.  The
\* reference cannot be replaced: an empty one is bound as NULL without a buffer.
OptRefBindTo(self, pos, p, bindOk) ==
    IF bindOk
    THEN IF self # None
         THEN LET inner == TBindTo(self[1], pos, p)
              IN  [ok |-> TRUE, params |-> inner.params, next |-> inner.next]
         ELSE [ok |-> TRUE, params |-> bind_null(p, pos, SqlNullType), next |-> pos + 1]
    ELSE [ok |-> FALSE, params |-> p, next |-> pos]

-----------------------------------------------------------------------------
(***************************************************************************)
(* The arguments of one statement: execute binds them in order, each at    *)
(* the position the one before it returned, the server runs the statement, *)
(* and each argument is updated from its bind.                             *)
(***************************************************************************)

\* How an argument is passed.
NvlForms    == { "Nvl", "&Nvl", "&mut Nvl" }
OptRefForms == { "Option<&T>", "Option<&mut T>" }
ArgForms    == NvlForms \cup { "&mut Option<T>" } \cup OptRefForms

\* The arguments a statement is executed with.  Optional references are empty,
\* as in option_args::output_to_none.
ArgChoices ==
    { [form |-> f, val |-> v] :
        f \in NvlForms \cup { "&mut Option<T>" }, v \in { None } \cup { Some(x) : x \in Values } }
    \cup { [form |-> f, val |-> None] : f \in OptRefForms }

ArgLists == UNION { [1 .. n -> ArgChoices] : n \in 1 .. MaxPos }

\* ToSql::bind_to of the argument
ArgBindTo(arg, pos, p, bindOk) ==
    CASE arg.form = "Nvl"            -> NvlBindTo(arg.val, pos, p, bindOk)
      [] arg.form = "&Nvl"           -> NvlRefBindTo(arg.val, pos, p, bindOk)
      [] arg.form = "&mut Nvl"       -> NvlMutBindTo(arg.val, pos, p, bindOk)
      [] arg.form = "&mut Option<T>" -> OptMutBindTo(arg.val, pos, p, bindOk)
      [] arg.form \in OptRefForms    -> OptRefBindTo(arg.val, pos, p, bindOk)

\* ToSql::update_from_bind of the argument; the trait's default does nothing
ArgUpdateFromBind(arg, pos, p) ==
    CASE arg.form = "&mut Nvl"       -> NvlMutUpdateFromBind(arg.val, pos, p)
      [] arg.form = "&mut Option<T>" -> OptMutUpdateFromBind(arg.val, pos, p)
      [] OTHER                       -> arg.val

\* What the server reads from a bound placeholder: NULL when its indicator is NULL
ServerIn(b) == IF b.ind = OCI_IND_NULL THEN None ELSE b.buf

\* What the statement assigns to the placeholder
ServerOut(kind, value, b) ==
    CASE kind = "keep" -> ServerIn(b)
      [] kind = "null" -> None
      [] kind = "set"  -> Some(value)

\* The server's error code for the placeholder: a value does not fit a bind
\* without a buffer
ServerCode(out, b) == IF out # None /\ b.buf = None THEN ORA_06502 ELSE 0

InitArgs ==
    /\ args \in ArgLists
    /\ args0 = args
    /\ aParams = NoParams
    /\ aPhase = "binding"
    /\ aPos = 1
    /\ spans = <<>>
    /\ aStmt = [kind |-> "none", value |-> 0]
    /\ aCode = 0

\* Statement::execute, first part: the next argument is bound at the position
\* the previous one returned; a refused bind ends execute with its error.
BindNext(bindOk) ==
    /\ aPhase = "binding"
    /\ LET i == Len(spans) + 1
           b == ArgBindTo(args[i], aPos, aParams, bindOk)
       IN  IF b.ok
           THEN /\ aParams' = b.params
                /\ spans' = Append(spans, <<aPos, b.next>>)
                /\ aPos' = b.next
                /\ aPhase' = IF i = Len(args) THEN "bound" ELSE "binding"
                /\ UNCHANGED aCode
           ELSE /\ aPhase' = "failed"
                /\ aCode' = 1
                /\ UNCHANGED <<aParams, spans, aPos>>
    /\ UNCHANGED <<args, args0, aStmt>>

\* Statement::execute, second part: the server runs the statement.  It writes
\* what it assigns into the bound buffers (a held value's own memory) and the
\* indicators; its error is returned as Error::Oracle(code, _).
ExecuteStmt(kind, value) ==
    /\ aPhase = "bound"
    /\ LET n       == Len(args)
           rec(i)  == aParams[spans[i][1]][1]
           out(i)  == ServerOut(kind, value, rec(i))
           codes   == { ServerCode(out(i), rec(i)) : i \in 1 .. n } \ { 0 }
           upd(i)  == [rec(i) EXCEPT !.ind = IF out(i) = None THEN OCI_IND_NULL ELSE 0,
                                     !.buf = IF out(i) = None THEN rec(i).buf ELSE out(i)]
       IN  IF codes # {}
           THEN /\ aPhase' = "failed"
                /\ aCode' = CHOOSE c \in codes : TRUE
                /\ UNCHANGED <<args, aParams>>
           ELSE /\ aPhase' = "executed"
                /\ aCode' = 0
                /\ aParams' = [pos \in Positions |->
                                  IF \E i \in 1 .. n : spans[i][1] = pos
                                  THEN Some(upd(CHOOSE i \in 1 .. n : spans[i][1] = pos))
                                  ELSE aParams[pos]]
                /\ args' = [i \in 1 .. n |->
                               IF out(i) # None /\ args[i].val # None
                               THEN [args[i] EXCEPT !.val = out(i)]
                               ELSE args[i]]
    /\ aStmt' = [kind |-> kind, value |-> IF kind = "set" THEN value ELSE 0]
    /\ UNCHANGED <<args0, aPos, spans>>

\* Statement::execute, last part: every argument is updated from its bind
UpdateArgs ==
    /\ aPhase = "executed"
    /\ args' = [i \in 1 .. Len(args) |->
                   [args[i] EXCEPT !.val = ArgUpdateFromBind(args[i], spans[i][1], aParams)]]
    /\ aPhase' = "done"
    /\ UNCHANGED <<args0, aParams, aPos, spans, aStmt, aCode>>

NextArgs ==
    \/ \E bindOk \in BOOLEAN : BindNext(bindOk) /\ UNCHANGED <<colsVars, nvlVars, poolVars, columnsVars, sizeVars, varcharVars>>
    \/ \E kind \in StmtKinds, value \in Values :
          ExecuteStmt(kind, value) /\ UNCHANGED <<colsVars, nvlVars, poolVars, columnsVars, sizeVars, varcharVars>>
    \/ UpdateArgs /\ UNCHANGED <<colsVars, nvlVars, poolVars, columnsVars, sizeVars, varcharVars>>

-----------------------------------------------------------------------------
(***************************************************************************)
(* The driver's session pool, as SessionPool uses it: session_pool_create, *)
(* session_get in the pool's default mode (a caller that finds every       *)
(* session checked out and the pool at its maximum waits), and the release *)
(* of a session when its borrower drops it.                                *)
(***************************************************************************)

Workers == 1 .. NumWorkers

Min(a, b) == IF a < b THEN a ELSE b

NoDriverPool == [min |-> 0, max |-> 0, incr |-> 0, open |-> 0, busy |-> 0]

\* OCISessionPoolCreate(min, max, incr): the pool opens its minimum of sessions
session_pool_create(sessMin, sessMax, sessIncr) ==
    [min |-> sessMin, max |-> sessMax, incr |-> sessIncr, open |-> sessMin, busy |-> 0]

\* OCISessionGet can hand out a session: one is free, or the pool may grow
CanGrant(d) == d.busy < d.open \/ d.open < d.max

\* OCISessionGet hands out a session, growing the pool by its increment when none is free
session_get(d) ==
    IF d.busy < d.open
    THEN [d EXCEPT !.busy = @ + 1]
    ELSE [d EXCEPT !.open = Min(d.max, d.open + d.incr), !.busy = @ + 1]

\* Drop for the borrowed session: OCISessionRelease returns it to the pool
session_release(d) == [d EXCEPT !.busy = @ - 1]

\* SessionPool::open_count: the pool's OCI_ATTR_SPOOL_OPEN_COUNT
open_count == drv.open

\* The sessions checked out of the pool
CheckedOut == { w \in Workers : holds[w] # "none" }

-----------------------------------------------------------------------------
(***************************************************************************)
(* The example: the main thread creates the pool, then every worker thread *)
(* gets a session, works with it and drops it.                             *)
(***************************************************************************)

\* create_session_pool(dbname, dbuser, dbpass, min, inc, max) with max < W
PoolConfigs ==
    { c \in [min : 0 .. 1, inc : 1 .. MaxPoolMax + 1, max : 1 .. MaxPoolMax] :
        c.min <= c.max /\ c.max < NumWorkers }

InitPool ==
    /\ pool = "none"
    /\ cfg \in PoolConfigs
    /\ drv = NoDriverPool
    /\ createCalls = 0
    /\ pc = [w \in Workers |-> "spawned"]
    /\ getCalls = [w \in Workers |-> 0]
    /\ holds = [w \in Workers |-> "none"]
    /\ driverErr = [w \in Workers |-> FALSE]
    /\ waited = [w \in Workers |-> FALSE]

\* SessionPool::new handing its counts to the driver in its own parameter
\* order (min, inc, max) where the driver takes (min, max, incr).
SessionPoolNewOwnOrder(allocOk, createOk) ==
    /\ pool = "none"
    /\ IF ~allocOk
       THEN /\ pool' = "failed"
            /\ UNCHANGED <<drv, createCalls>>
       ELSE /\ createCalls' = createCalls + 1
            /\ IF createOk
               THEN /\ drv' = session_pool_create(cfg.min, cfg.inc, cfg.max)
                    /\ pool' = "created"
               ELSE /\ pool' = "failed"
                    /\ UNCHANGED drv
    /\ UNCHANGED <<cfg, pc, getCalls, holds, driverErr, waited>>

\* SessionPool::new.  allocOk: the handles are allocated and their attributes
\* set; createOk: the driver creates the pool.
SessionPoolNew(allocOk, createOk) ==
    /\ pool = "none"
    /\ IF ~allocOk
       THEN /\ pool' = "failed"
            /\ UNCHANGED <<drv, createCalls>>
       ELSE /\ createCalls' = createCalls + 1
            /\ IF createOk
               THEN /\ drv' = session_pool_create(cfg.min, cfg.max, cfg.inc)
                    /\ pool' = "created"
               ELSE /\ pool' = "failed"
                    /\ UNCHANGED drv
    /\ UNCHANGED <<cfg, pc, getCalls, holds, driverErr, waited>>

\* SessionPool::get_session -> get_svc_ctx, up to the call of session_get.
\* allocOk: the OCIAuthInfo handle is allocated.
GetSvcCtxCall(w, allocOk) ==
    /\ pool = "created"
    /\ pc[w] = "spawned"
    /\ IF ~allocOk
       THEN /\ pc' = [pc EXCEPT ![w] = "failed"]
            /\ driverErr' = [driverErr EXCEPT ![w] = TRUE]
            /\ UNCHANGED <<getCalls, waited>>
       ELSE /\ pc' = [pc EXCEPT ![w] = "in_session_get"]
            /\ getCalls' = [getCalls EXCEPT ![w] = @ + 1]
            /\ waited' = [waited EXCEPT ![w] = ~CanGrant(drv)]
            /\ UNCHANGED driverErr
    /\ UNCHANGED <<pool, cfg, drv, createCalls, holds>>

\* get_svc_ctx: session_get returns a session
GetSvcCtxOk(w) ==
    /\ pc[w] = "in_session_get"
    /\ CanGrant(drv)
    /\ drv' = session_get(drv)
    /\ holds' = [holds EXCEPT ![w] = "session"]
    /\ pc' = [pc EXCEPT ![w] = "working"]
    /\ UNCHANGED <<pool, cfg, createCalls, getCalls, driverErr, waited>>

\* get_svc_ctx calling session_get again when it fails
GetSvcCtxErrRetry(w) ==
    /\ pc[w] = "in_session_get"
    /\ getCalls' = [getCalls EXCEPT ![w] = @ + 1]
    /\ UNCHANGED <<pool, cfg, drv, createCalls, pc, holds, driverErr, waited>>

\* get_svc_ctx: session_get returns an error, which `?` returns to the caller
GetSvcCtxErr(w) ==
    /\ pc[w] = "in_session_get"
    /\ pc' = [pc EXCEPT ![w] = "failed"]
    /\ driverErr' = [driverErr EXCEPT ![w] = TRUE]
    /\ UNCHANGED <<pool, cfg, drv, createCalls, getCalls, holds, waited>>

\* A worker that ends without its session being released
WorkerFinishLeak(w) ==
    /\ pc[w] = "working"
    /\ pc' = [pc EXCEPT ![w] = "done"]
    /\ UNCHANGED <<pool, cfg, drv, createCalls, getCalls, holds, driverErr, waited>>

\* The worker's closure runs to its end: the session goes out of scope
WorkerFinish(w) ==
    /\ pc[w] = "working"
    /\ drv' = session_release(drv)
    /\ holds' = [holds EXCEPT ![w] = "none"]
    /\ pc' = [pc EXCEPT ![w] = "done"]
    /\ UNCHANGED <<pool, cfg, createCalls, getCalls, driverErr, waited>>

NextPool ==
    \/ \E allocOk \in BOOLEAN, createOk \in BOOLEAN :
          SessionPoolNew(allocOk, createOk) /\ UNCHANGED <<colsVars, nvlVars, argVars, columnsVars, sizeVars, varcharVars>>
    \/ \E w \in Workers, allocOk \in BOOLEAN :
          GetSvcCtxCall(w, allocOk) /\ UNCHANGED <<colsVars, nvlVars, argVars, columnsVars, sizeVars, varcharVars>>
    \/ \E w \in Workers : GetSvcCtxOk(w) /\ UNCHANGED <<colsVars, nvlVars, argVars, columnsVars, sizeVars, varcharVars>>
    \/ \E w \in Workers : GetSvcCtxErr(w) /\ UNCHANGED <<colsVars, nvlVars, argVars, columnsVars, sizeVars, varcharVars>>
    \/ \E w \in Workers : WorkerFinish(w) /\ UNCHANGED <<colsVars, nvlVars, argVars, columnsVars, sizeVars, varcharVars>>

-----------------------------------------------------------------------------
(***************************************************************************)
(* Columns::new, the size of one column's buffer: the computation of       *)
(* data_size, the allocation ColumnBuffer::new makes with it and the size  *)
(* get_output_buffer_def hands to define_by_pos.                           *)
(*                                                                         *)
(* The integer widths are scaled: a u16 has HalfBits bits and a u32 twice  *)
(* as many, so that a u16 times a u32 overflows a u32 exactly as it does   *)
(* at 16 and 32 bits (a product of the largest u16 and a factor above      *)
(* 2^HalfBits + 1 does not fit).                                           *)
(***************************************************************************)

U16Size == 2 ^ HalfBits
U32Size == U16Size * U16Size

\* The values of a u16 and of a u32
U16 == 0 .. U16Size - 1
U32 == 0 .. U32Size - 1

\* unwrap_or(2): the factor used when ORACLE_UTF8_CONV_FACTOR gives none
DefaultFactor == 2

\* size_of::<u32>(), the length prefix of an SQLT_LVC or SQLT_LVB buffer
LengthPrefix == 4

\* What ORACLE_UTF8_CONV_FACTOR can hold: the text of a number, of any size,
\* or a text that is not a number
EnvTexts ==
    { [digits |-> TRUE, n |-> k] : k \in 0 .. U32Size } \cup { [digits |-> FALSE, n |-> 0] }

\* std::env::var(..).ok(): None when the variable is not set
EnvVars == { None } \cup { Some(t) : t \in EnvTexts }

\* val.parse::<u32>().ok(): the number the text spells, when it fits a u32
ParseU32(text) ==
    IF text.digits /\ text.n < U32Size THEN Some(text.n) ELSE None

\* utf8_factor of Columns::new
utf8_factor(env) ==
    unwrap_or(IF env = None THEN None ELSE ParseU32(env[1]), DefaultFactor)

PanicOverflow == "attempt to multiply with overflow"

\* `a * b` of two u32.  checks: the build has overflow checks (a debug build
\* panics on overflow, a release build wraps).
MulU32(a, b, checks) ==
    IF a * b < U32Size THEN Ok(a * b)
    ELSE IF checks THEN Err(PanicOverflow)
    ELSE Ok((a * b) % U32Size)

\* data_size computed for every column from the reported size alone
DataSizeReported(code, n, factor, maxLong, checks) == MulU32(n, factor, checks)

\* data_size of Columns::new.  n: OCI_ATTR_DATA_SIZE of the column (u16).
DataSize(code, n, factor, maxLong, checks) ==
    IF code \in { "SQLT_LNG", "SQLT_LBI" }
    THEN Ok(maxLong)
    ELSE MulU32(n, factor, checks)

\* get_output_buffer_def: the type and the size of the output buffer
\* (size_of on a 64-bit target for the variants of fixed size)
OutputBufferDef(variant, col_size) ==
    CASE variant = "Text"   -> [type |-> "SQLT_LVC", size |-> col_size + LengthPrefix]
      [] variant = "Binary" -> [type |-> "SQLT_LVB", size |-> col_size + LengthPrefix]
      [] variant = "Number" -> [type |-> "SQLT_VNU", size |-> 22]
      [] variant = "Date"   -> [type |-> "SQLT_ODT", size |-> 7]
      [] variant = "Float"  -> [type |-> "SQLT_BFLOAT", size |-> 4]
      [] variant = "Double" -> [type |-> "SQLT_BDOUBLE", size |-> 8]
      [] variant = "Cursor" -> [type |-> "SQLT_RSET", size |-> 0]
      [] OTHER -> [type |-> variant, size |-> 8]

\* The column, the environment and the build the size is computed for
SizeInputs ==
    [code : WireCodes, n : U16, env : EnvVars, maxLong : { 1, U32Size - 1 },
     checks : BOOLEAN, allocOk : BOOLEAN]

InitSize ==
    /\ szIn \in SizeInputs
    /\ szOut = None

\* The part of an iteration of Columns::new that sizes the column: data_size,
\* ColumnBuffer::new with it (varchar::new and raw::new ask the driver for
\* data_size bytes) and get_output_buffer_def(data_size as usize), whose size
\* define_by_pos registers.
SizeColumn ==
    /\ szOut = None
    /\ LET factor == utf8_factor(szIn.env)
           size == DataSize(szIn.code, szIn.n, factor, szIn.maxLong, szIn.checks)
           buf == ColumnBufferNew(szIn.code, szIn.allocOk)
       IN  szOut' = Some(
              IF ~size.ok
              THEN [outcome |-> "panic", factor |-> factor, data_size |-> 0,
                    variant |-> "none", allocated |-> 0, registered |-> 0]
              ELSE IF ~buf.ok
              THEN [outcome |-> "err", factor |-> factor, data_size |-> size.val[1],
                    variant |-> "none", allocated |-> 0, registered |-> 0]
              ELSE [outcome |-> "ok", factor |-> factor, data_size |-> size.val[1],
                    variant |-> buf.val[1],
                    allocated |-> IF buf.val[1] \in { "Text", "Binary" }
                                  THEN size.val[1] ELSE 0,
                    registered |-> OutputBufferDef(buf.val[1], size.val[1]).size])
    /\ UNCHANGED szIn

NextSize ==
    SizeColumn /\ UNCHANGED <<colsVars, nvlVars, poolVars, argVars, columnsVars, varcharVars>>

-----------------------------------------------------------------------------
(***************************************************************************)
(* Varchar (varchar.rs): a text kept in an OCIString of the driver.  The   *)
(* driver's string functions are modelled as the documentation and the     *)
(* examples of varchar.rs describe them.  A text is a sequence of bytes.   *)
(***************************************************************************)

Bytes == { "a", "b" }

\* A text longer than a u32 can count
LongText == [i \in 1 .. U32Size + 1 |-> "a"]

\* The texts assigned: all short ones and the long one
Texts == UNION { [1 .. n -> Bytes] : n \in 0 .. MaxLen } \cup { LongText }

\* The capacities asked for (usize): small ones and one a u32 cannot hold
Capacities == 0 .. MaxLen \cup { U32Size }

\* `n as u32` of a usize
AsU32(n) == n % U32Size

Max(a, b) == IF a > b THEN a ELSE b

\* Ptr::null(): no OCIString
NullString == [null |-> TRUE, data |-> <<>>, cap |-> 0]

\* OCIStringResize: memory for new_size bytes, the content is not preserved;
\* a resize to 0 frees the string
OCIStringResize(str, new_size) ==
    IF new_size = 0 THEN NullString
    ELSE [null |-> FALSE, data |-> <<>>, cap |-> new_size]

\* OCIStringAssignText: the first len bytes of the text become the content
OCIStringAssignText(str, text, len) ==
    [null |-> FALSE, data |-> SubSeq(text, 1, len), cap |-> Max(str.cap, len)]

\* OCIStringAssign: the content of the source becomes the content of the target
OCIStringAssign(source, target) ==
    IF source.null THEN target
    ELSE [null |-> FALSE, data |-> source.data, cap |-> Max(target.cap, Len(source.data))]

\* OCIStringAllocSize: fails (OCI-21500) for a string that has no memory
OCIStringAllocSize(str) == IF str.null THEN Err(DriverError) ELSE Ok(str.cap)

\* OCIStringSize
OCIStringSize(str) == Len(str.data)

\* varchar::new
varchar_new(size, drvOk) ==
    IF drvOk THEN Ok(OCIStringResize(NullString, size)) ELSE Err(DriverError)

\* varchar::free
varchar_free(str) == OCIStringResize(str, 0)

\* Varchar::from
VarcharFrom(text, drvOk) ==
    IF drvOk THEN Ok(OCIStringAssignText(NullString, text, AsU32(Len(text))))
    ELSE Err(DriverError)

\* Varchar::from_varchar
VarcharFromVarchar(other, drvOk) ==
    IF drvOk THEN Ok(OCIStringAssign(other, NullString)) ELSE Err(DriverError)

\* Varchar::with_capacity
VarcharWithCapacity(size, drvOk) == varchar_new(AsU32(size), drvOk)

\* Varchar::set that leaves the content as it was
VarcharSetKeeps(self, text, drvOk) ==
    IF drvOk THEN Ok(self) ELSE Err(DriverError)

\* Varchar::set
VarcharSet(self, text, drvOk) ==
    IF drvOk THEN Ok(OCIStringAssignText(self, text, AsU32(Len(text))))
    ELSE Err(DriverError)

\* Varchar::resize
VarcharResize(self, new_size, drvOk) ==
    IF drvOk THEN Ok(OCIStringResize(self, AsU32(new_size))) ELSE Err(DriverError)

\* Varchar::len
VarcharLen(self) == OCIStringSize(self)

\* Varchar::capacity
VarcharCapacity(self) == OCIStringAllocSize(self)

\* Varchar::as_str
VarcharAsStr(self) == self.data

NoVarcharRes == [op |-> "none", text |-> <<>>, size |-> 0, ok |-> FALSE, src |-> None]

VarcharRes(op, text, size, ok, src) ==
    [op |-> op, text |-> text, size |-> size, ok |-> ok, src |-> src]

InitVarchar ==
    /\ vtxt = None
    /\ vsrc = None
    /\ vRes = NoVarcharRes

\* let txt = Varchar::from(text, env)?
From(text, drvOk) ==
    LET r == VarcharFrom(text, drvOk)
    IN  /\ vtxt' = IF r.ok THEN Some(r.val[1]) ELSE vtxt
        /\ vRes' = VarcharRes("from", text, 0, r.ok, None)
        /\ UNCHANGED vsrc

\* let txt = Varchar::with_capacity(size, env)?
WithCapacity(size, drvOk) ==
    LET r == VarcharWithCapacity(size, drvOk)
    IN  /\ vtxt' = IF r.ok THEN Some(r.val[1]) ELSE vtxt
        /\ vRes' = VarcharRes("with_capacity", <<>>, size, r.ok, None)
        /\ UNCHANGED vsrc

\* let txt = Varchar::from_varchar(&src)?, src being the Varchar held so far
FromVarchar(drvOk) ==
    /\ vtxt # None
    /\ LET r == VarcharFromVarchar(vtxt[1], drvOk)
       IN  /\ vtxt' = IF r.ok THEN Some(r.val[1]) ELSE vtxt
           /\ vsrc' = IF r.ok THEN vtxt ELSE vsrc
           /\ vRes' = VarcharRes("from_varchar", <<>>, 0, r.ok, vtxt)

\* txt.set(text)?
Set(text, drvOk) ==
    /\ vtxt # None
    /\ LET r == VarcharSet(vtxt[1], text, drvOk)
       IN  /\ vtxt' = IF r.ok THEN Some(r.val[1]) ELSE vtxt
           /\ vRes' = VarcharRes("set", text, 0, r.ok, None)
    /\ UNCHANGED vsrc

\* txt.resize(new_size)?
Resize(new_size, drvOk) ==
    /\ vtxt # None
    /\ LET r == VarcharResize(vtxt[1], new_size, drvOk)
       IN  /\ vtxt' = IF r.ok THEN Some(r.val[1]) ELSE vtxt
           /\ vRes' = VarcharRes("resize", <<>>, new_size, r.ok, None)
    /\ UNCHANGED vsrc

NextVarchar ==
    \/ \E text \in Texts, drvOk \in BOOLEAN :
          From(text, drvOk) /\ UNCHANGED <<colsVars, nvlVars, poolVars, argVars, columnsVars, sizeVars>>
    \/ \E size \in Capacities, drvOk \in BOOLEAN :
          WithCapacity(size, drvOk) /\ UNCHANGED <<colsVars, nvlVars, poolVars, argVars, columnsVars, sizeVars>>
    \/ \E drvOk \in BOOLEAN :
          FromVarchar(drvOk) /\ UNCHANGED <<colsVars, nvlVars, poolVars, argVars, columnsVars, sizeVars>>
    \/ \E text \in Texts, drvOk \in BOOLEAN :
          Set(text, drvOk) /\ UNCHANGED <<colsVars, nvlVars, poolVars, argVars, columnsVars, sizeVars>>
    \/ \E size \in Capacities, drvOk \in BOOLEAN :
          Resize(size, drvOk) /\ UNCHANGED <<colsVars, nvlVars, poolVars, argVars, columnsVars, sizeVars>>

-----------------------------------------------------------------------------
(***************************************************************************)
(* Specifications.  While one component runs the others stay as            *)
(* constructed.                                                            *)
(***************************************************************************)

IdleCols ==
    /\ colBuf = ColumnNew("Text")
    /\ colInd = 0
    /\ rowNum = 0
    /\ gets = 0
    /\ okGets = 0
    /\ prevRowOk = 0
    /\ owned = <<>>
    /\ lastRes = NoRes

IdleNvl ==
    /\ nvl = None
    /\ params = NoParams
    /\ phase = "idle"
    /\ bindPos = 1
    /\ nextPos = 1
    /\ nvlRes = NvlResult("none", None, None, None, 0)

IdlePool ==
    /\ pool = "none"
    /\ cfg = [min |-> 0, inc |-> 1, max |-> 1]
    /\ drv = NoDriverPool
    /\ createCalls = 0
    /\ pc = [w \in Workers |-> "spawned"]
    /\ getCalls = [w \in Workers |-> 0]
    /\ holds = [w \in Workers |-> "none"]
    /\ driverErr = [w \in Workers |-> FALSE]
    /\ waited = [w \in Workers |-> FALSE]

IdleArgs ==
    /\ args = <<>>
    /\ args0 = <<>>
    /\ aParams = NoParams
    /\ aPhase = "done"
    /\ aPos = 1
    /\ spans = <<>>
    /\ aStmt = [kind |-> "none", value |-> 0]
    /\ aCode = 0

IdleColumns ==
    /\ cols = <<>>
    /\ numColumns = 1
    /\ colsRes = "err"
    /\ names = NoNames
    /\ vec = VecWithCapacity(1)
    /\ lookup = NoLookup

IdleSize ==
    /\ szIn = [code |-> "SQLT_CHR", n |-> 0, env |-> None, maxLong |-> 1,
               checks |-> FALSE, allocOk |-> TRUE]
    /\ szOut = None

IdleVarchar ==
    /\ vtxt = None
    /\ vsrc = None
    /\ vRes = NoVarcharRes

ColsInit == InitCols /\ IdleNvl /\ IdlePool /\ IdleArgs /\ IdleColumns /\ IdleSize /\ IdleVarchar

SpecCols == ColsInit /\ [][NextCols]_vars

ColumnsInit == IdleCols /\ IdleNvl /\ IdlePool /\ IdleArgs /\ InitColumns /\ IdleSize /\ IdleVarchar

SpecColumns == ColumnsInit /\ [][NextColumns]_vars

NvlInit == IdleCols /\ InitNvl /\ IdlePool /\ IdleArgs /\ IdleColumns /\ IdleSize /\ IdleVarchar

SpecNvl == NvlInit /\ [][NextNvl]_vars

ArgsInit == IdleCols /\ IdleNvl /\ IdlePool /\ InitArgs /\ IdleColumns /\ IdleSize /\ IdleVarchar

SpecArgs == ArgsInit /\ [][NextArgs]_vars

PoolInit == IdleCols /\ IdleNvl /\ InitPool /\ IdleArgs /\ IdleColumns /\ IdleSize /\ IdleVarchar

SpecPool == PoolInit /\ [][NextPool]_vars

SizeInit ==
    IdleCols /\ IdleNvl /\ IdlePool /\ IdleArgs /\ IdleColumns /\ InitSize /\ IdleVarchar

SpecSize == SizeInit /\ [][NextSize]_vars

VarcharInit ==
    IdleCols /\ IdleNvl /\ IdlePool /\ IdleArgs /\ IdleColumns /\ IdleSize /\ InitVarchar

SpecVarchar == VarcharInit /\ [][NextVarchar]_vars

\* Threads are scheduled: a worker that can take a step takes it; a session
\* the driver can hand to a waiting caller is handed to it; a borrower drops
\* its session.  That the driver reports no error is not assumed.
FairSpecPool ==
    /\ SpecPool
    /\ WF_vars(\E allocOk \in BOOLEAN, createOk \in BOOLEAN :
                  SessionPoolNew(allocOk, createOk) /\ UNCHANGED <<colsVars, nvlVars, argVars, columnsVars, sizeVars, varcharVars>>)
    /\ \A w \in Workers :
          /\ WF_vars(\E allocOk \in BOOLEAN : GetSvcCtxCall(w, allocOk) /\ UNCHANGED <<colsVars, nvlVars, argVars, columnsVars, sizeVars, varcharVars>>)
          /\ WF_vars(GetSvcCtxOk(w) /\ UNCHANGED <<colsVars, nvlVars, argVars, columnsVars, sizeVars, varcharVars>>)
          /\ WF_vars(WorkerFinish(w) /\ UNCHANGED <<colsVars, nvlVars, argVars, columnsVars, sizeVars, varcharVars>>)


-----------------------------------------------------------------------------
(***************************************************************************)
(* Properties of the column conversions (checked under SpecCols)           *)
(***************************************************************************)

\* The last call was Row::get of the column's own strong type on a non-NULL value.
OwnConversion ==
    /\ lastRes.target = OwnTarget(colBuf.kind)
    /\ ~lastRes.null

\* No two handles handed out from the row own the same initialized locator.
NoSharedLocator ==
    \A i, j \in 1 .. Len(owned) :
        i # j /\ is_initialized(owned[i].of) => owned[i].of # owned[j].of

C2_RowidConsumedOnce ==
    colBuf.kind = "Rowid" =>
        /\ OwnConversion /\ lastRes.prevOk = 0 /\ lastRes.allocOk =>
              /\ lastRes.res.ok
              /\ lastRes.res.val[1] = [as |-> "RowID", of |-> Fetched(rowNum)]
              /\ colBuf.data = NewDescriptor
        /\ OwnConversion /\ lastRes.prevOk > 0 =>
              /\ ~lastRes.res.ok
              /\ lastRes.res.msg = "already consumed"
        /\ okGets <= 1

\* C2 witness: as in tests::from_rowid, the ROWID was taken and the next
\* conversion to RowID was refused.
C2_Witness ==
    /\ colBuf.kind = "Rowid"
    /\ rowNum = 1
    /\ owned = << [as |-> "RowID", of |-> Fetched(1)] >>
    /\ lastRes.target = "RowID"
    /\ lastRes.prevOk = 1
    /\ lastRes.res = Err("already consumed")

\* C3: for a nested-cursor column, within one fetched row a conversion to
\* Cursor that follows a successful one returns no other Cursor: it fails, and
\* (unless the failure is that of an allocation) with "already consumed".
C3_CursorConsumedOnce ==
    colBuf.kind = "Cursor" /\ OwnConversion /\ lastRes.prevOk > 0 =>
        /\ ~lastRes.res.ok
        /\ lastRes.allocOk => lastRes.res.msg = "already consumed"

\* C4: single consumption is per row: when a descriptor-backed column was
\* consumed in the previous row, in the row fetched after it the column is
\* convertible again (the conversion yields this row's handle), and exactly once.
C4_ConvertibleOncePerRow ==
    colBuf.kind \in DescriptorBackedKinds /\ rowNum >= 2 /\ prevRowOk >= 1 =>
        /\ OwnConversion /\ lastRes.prevOk = 0 /\ lastRes.allocOk =>
              /\ lastRes.res.ok
              /\ lastRes.res.val[1].of = Fetched(rowNum)
        /\ OwnConversion /\ lastRes.prevOk > 0 => ~lastRes.res.ok
        /\ okGets <= 1


\* The last call was Row::get::<target> on a value that is not NULL.
Converted(target) ==
    /\ lastRes.target = target
    /\ ~lastRes.null

\* The conversion was refused for the type of the buffer.
Refused == lastRes.res = Err("cannot convert")

\* The conversion was not refused for the type of the buffer: it returned a
\* value unless a call of the driver failed.
Accepted ==
    /\ lastRes.res.msg # "cannot convert"
    /\ lastRes.allocOk => lastRes.res.ok

\* C16 as stated: decoding into String and into &str succeeds for each of the
\* 16 buffer variants and never returns "cannot convert".
C16_TextAcceptsAll ==
    \A target \in TextTargets : Converted(target) => Accepted

\* C16 amended: decoding into String succeeds, with the text the variant's
\* formatter makes of the buffer, for the variants Text, Number, Date,
\* Timestamp, TimestampTZ, TimestampLTZ, IntervalYM, IntervalDS, Float, Double
\* and Rowid, and returns "cannot convert" for Binary, CLOB, BLOB, BFile and
\* Cursor; decoding into &str succeeds for Text and returns "cannot convert"
\* for every other variant.
C16_TextAccepts ==
    /\ Converted("String") =>
          IF colBuf.kind \in { "Binary", "CLOB", "BLOB", "BFile", "Cursor" }
          THEN Refused
          ELSE /\ Accepted
               /\ lastRes.res.ok =>
                     lastRes.res.val[1] = Made("String", ToText(colBuf.kind), colBuf)
    /\ Converted("&str") =>
          IF colBuf.kind = "Text"
          THEN lastRes.res = Ok(Made("&str", "varchar::as_str", colBuf))
          ELSE Refused

\* C16 witness: a NUMBER column was decoded into a String with the TM format,
\* and the buffer is as it was.
C16_Witness ==
    /\ colBuf.kind = "Number"
    /\ Converted("String")
    /\ lastRes.res = Ok([as |-> "String", by |-> "number::to_string TM", of |-> Fetched(rowNum)])
    /\ colBuf = lastRes.before

\* C17 as stated: every numeric target type accepts exactly the variants
\* Number, Float, Double, IntervalYM and IntervalDS.
C17_NumericAcceptsFive ==
    \A target \in NumericTargets :
        Converted(target) =>
            IF colBuf.kind \in { "Number", "Float", "Double", "IntervalYM", "IntervalDS" }
            THEN Accepted
            ELSE Refused

\* C17 amended: f32, f64 and Number accept exactly the variants Number, Float,
\* Double, IntervalYM and IntervalDS; the integer types accept exactly Number;
\* every other variant is refused with "cannot convert".
C17_NumericAccepts ==
    /\ \A target \in NumericTargets \ { "Integer" } :
          Converted(target) =>
              IF colBuf.kind \in { "Number", "Float", "Double", "IntervalYM", "IntervalDS" }
              THEN Accepted /\ (lastRes.res.ok => lastRes.res.val[1].as = target)
              ELSE Refused
    /\ Converted("Integer") =>
          IF colBuf.kind = "Number"
          THEN Accepted /\ (lastRes.res.ok => lastRes.res.val[1].as = "Integer")
          ELSE Refused

\* C17 witness: a BINARY_DOUBLE column was refused to an integer type.
C17_Witness ==
    /\ colBuf.kind = "Double"
    /\ colBuf.data = Fetched(rowNum)
    /\ Converted("Integer")
    /\ Refused

\* The last call was the conversion of a descriptor-backed column that is not
\* NULL into a type other than the column's own strong type.
ForeignConversion ==
    /\ colBuf.kind \in DescriptorBackedKinds
    /\ lastRes.target \in Targets \ { OwnTarget(colBuf.kind) }
    /\ ~lastRes.null

\* C18 as stated: a CLOB, BLOB, BFile, Rowid or Cursor buffer converts only to
\* its own strong type; the conversion to every other type returns an error.
C18_DescriptorOnlyOwn ==
    ForeignConversion => ~lastRes.res.ok

\* C18 amended: a CLOB, BLOB, BFile or Cursor buffer converts only to its own
\* strong type and a Rowid buffer only to RowID and to the text types String
\* and Varchar (the text of the ROWID); every other conversion of these
\* buffers is refused with "cannot convert".
C18_DescriptorOwnOrRowidText ==
    ForeignConversion =>
        IF colBuf.kind = "Rowid" /\ lastRes.target \in { "String", "Varchar" }
        THEN /\ Accepted
             /\ lastRes.res.ok =>
                   lastRes.res.val[1] = Made(lastRes.target, "RowID::to_string", colBuf)
        ELSE Refused

\* C18 witness: as in tests::from_rowid, the ROWID of the row was decoded into
\* a String.
C18_Witness ==
    /\ colBuf = [kind |-> "Rowid", data |-> Fetched(rowNum)]
    /\ Converted("String")
    /\ lastRes.res = Ok([as |-> "String", by |-> "RowID::to_string", of |-> Fetched(rowNum)])

\* C19: for every column kind, a column is NULL exactly when its indicator is
\* -1; Row::get of a NULL into a type that is not an Option fails and into an
\* Option yields None, and neither reads or changes the buffer.
C19_NullDecoding ==
    lastRes.target # "none" =>
        /\ lastRes.null <=> colInd = -1
        /\ lastRes.null =>
              /\ lastRes.res = IF lastRes.optional THEN Ok(None) ELSE Err(NullError)
              /\ colBuf = lastRes.before

\* C19 witness: the CLOB of the second row is NULL (the first row's locator was
\* taken); a get of a LOB fails, the buffer untouched.
C19_Witness ==
    /\ colBuf = [kind |-> "CLOB", data |-> NewDescriptor]
    /\ rowNum = 2
    /\ colInd = -1
    /\ lastRes.target = "CLOB"
    /\ ~lastRes.optional
    /\ lastRes.res = Err(NullError)

-----------------------------------------------------------------------------
(***************************************************************************)
(* Properties of the session pool (checked under SpecPool, FairSpecPool)   *)
(***************************************************************************)

\* C5: with W workers sharing a pool created with max = M < W, at most M
\* sessions are checked out at any time and open_count never reports more
\* than M.
C5_AtMostMaxSessions ==
    pool = "created" =>
        /\ Cardinality(CheckedOut) <= cfg.max
        /\ open_count <= cfg.max

\* C5 witness: all M sessions are checked out while a further worker is
\* inside get_session.
C5_Witness ==
    /\ pool = "created"
    /\ Cardinality(CheckedOut) = cfg.max
    /\ open_count = cfg.max
    /\ \E w \in Workers : pc[w] = "in_session_get" /\ waited[w]

C7_OneDriverCallNoRetry ==
    /\ createCalls <= 1
    /\ pool = "created" => createCalls = 1
    /\ pool = "failed" =>
          /\ drv = NoDriverPool
          /\ \A w \in Workers : pc[w] = "spawned" /\ holds[w] = "none"
    /\ \A w \in Workers :
          /\ getCalls[w] <= 1
          /\ driverErr[w] => pc[w] = "failed" /\ holds[w] = "none"
          /\ holds[w] # "none" => getCalls[w] = 1 /\ ~driverErr[w]

\* C7 witness: the one session_get of a worker failed and the worker has the
\* error, while the pool serves another worker.
C7_Witness ==
    /\ pool = "created" /\ createCalls = 1
    /\ \E w \in Workers : pc[w] = "failed" /\ driverErr[w] /\ getCalls[w] = 1
    /\ \E w \in Workers : holds[w] = "session"

-----------------------------------------------------------------------------
(***************************************************************************)
(* Properties of Nvl (checked under SpecNvl)                               *)
(***************************************************************************)

\* C8: Nvl has the states Holding(v) and Empty; new(v) gives Holding(v) with
\* as_ref() = Some(v); insert(v) and replace(v) give Holding(v) from either
\* state, insert returning v and replace the value held before (None from Empty).
C8_NvlStateMachine ==
    /\ nvl \in { None } \cup { Some(v) : v \in Values }
    /\ nvlRes.op = "new"     => nvl = nvlRes.arg /\ nvlRes.ret = nvlRes.arg
    /\ nvlRes.op = "insert"  => nvl = nvlRes.arg /\ nvlRes.ret = nvlRes.arg
    /\ nvlRes.op = "replace" => nvl = nvlRes.arg /\ nvlRes.ret = nvlRes.before

\* C8 witness: replace(1) on an Empty wrapper returned None and left Holding(1).
C8_Witness ==
    /\ nvlRes.op = "replace"
    /\ nvlRes.before = None
    /\ nvlRes.ret = None
    /\ nvl = Some(1)

\* C9: after an execution with the Nvl bound by mutable reference, when the
\* indicator of its position reports NULL the wrapper is Empty, whatever it
\* was before the execution.
C9_NullIndicatorEmpties ==
    nvlRes.op = "update_from_bind" /\ is_null(params, bindPos) = Some(TRUE) =>
        nvl = None

\* C9 witness: a wrapper that was Holding when it was bound is Empty after the
\* read-back of a NULL indicator.
C9_Witness ==
    /\ nvlRes.op = "update_from_bind"
    /\ nvlRes.before # None
    /\ is_null(params, bindPos) = Some(TRUE)
    /\ nvl = None

\* C10: binding by mutable reference, an Empty wrapper registers its position
\* as an SQL NULL of T's null type (no buffer); a Holding wrapper binds the
\* held value with T's own bind at the same position, and the position is
\* marked as null.
C10_BindMut ==
    nvlRes.op = "bind_to" /\ nvlRes.code = 0 =>
        /\ params[bindPos] =
              IF nvlRes.before = None
              THEN Some([sqlt |-> SqlNullType, buf |-> None, ind |-> OCI_IND_NULL])
              ELSE Some([sqlt |-> SqlType, buf |-> nvlRes.before, ind |-> OCI_IND_NULL])
        /\ is_null(params, bindPos) = Some(TRUE)
        /\ \A pos \in Positions \ { bindPos } : params[pos] = None

\* C10 witness: Holding(1) is bound at position 2.
C10_Witness ==
    /\ phase = "bound"
    /\ nvlRes.op = "bind_to"
    /\ nvlRes.before = Some(1)
    /\ bindPos = 2
    /\ params[2] = Some([sqlt |-> SqlType, buf |-> Some(1), ind |-> OCI_IND_NULL])

-----------------------------------------------------------------------------
(***************************************************************************)
(* Properties of the arguments of a statement (checked under SpecArgs)     *)
(***************************************************************************)

\* The arguments bound so far
Bound == 1 .. Len(spans)

\* C11: every bind_to called at position pos returns a position greater than
\* pos, past what it bound (pos + 1 for a NULL bind, what the held value's own
\* bind returned when a held value is bound); the arguments of a statement,
\* bound from position 1, occupy ascending positions with no gap and no overlap.
C11_PositionsAdvance ==
    /\ \A i \in Bound :
          /\ spans[i][2] > spans[i][1]
          /\ spans[i][1] = IF i = 1 THEN 1 ELSE spans[i - 1][2]
          /\ spans[i][2] = IF args0[i].form = "&mut Nvl" /\ args0[i].val # None
                           THEN TBindTo(args0[i].val[1], spans[i][1], NoParams).next
                           ELSE spans[i][1] + 1
    /\ aPos = IF spans = <<>> THEN 1 ELSE spans[Len(spans)][2]
    /\ \A pos \in Positions :
          aParams[pos] # None <=> \E i \in Bound : spans[i][1] <= pos /\ pos < spans[i][2]

\* C11 witness: a Holding wrapper bound by mutable reference at 1 and an Empty
\* one bound by value at 2; the next position is 3.
C11_Witness ==
    /\ aPhase = "bound"
    /\ args0 = << [form |-> "&mut Nvl", val |-> Some(1)], [form |-> "Nvl", val |-> None] >>
    /\ spans = << <<1, 2>>, <<2, 3>> >>
    /\ aPos = 3

\* An Nvl that was Holding when it was bound by mutable reference, after the
\* read-back of a statement of the given kind
ReadBack(i, kind) ==
    /\ aPhase = "done"
    /\ aStmt.kind = kind
    /\ args0[i].form = "&mut Nvl"
    /\ args0[i].val # None

\* C12 as stated: after Nvl::new(v) was bound and a statement that returns
\* the bound value unchanged was executed, the wrapper holds v; after a
\* statement that sets the parameter to NULL it is Empty.
C12_RoundTrip ==
    \A i \in 1 .. Len(args) :
        /\ ReadBack(i, "keep") => args[i].val = args0[i].val
        /\ ReadBack(i, "null") => args[i].val = None

\* C12 amended: Nvl::new(v) is bound as NULL, so after a statement that
\* returns the bound value unchanged the wrapper is Empty; after a statement
\* that sets the parameter to NULL it is Empty.
C12_BoundAsNull ==
    \A i \in 1 .. Len(args) :
        /\ ReadBack(i, "keep") => args[i].val = None
        /\ ReadBack(i, "null") => args[i].val = None

\* C12 witness: Nvl::new(1) was bound by mutable reference, the statement
\* returned what it was given, and the wrapper is Empty.
C12_Witness ==
    /\ ReadBack(1, "keep")
    /\ args0[1].val = NvlNew(1)
    /\ args[1].val = None

\* C13: an Nvl bound by value or by shared reference is bound as an SQL NULL
\* (no buffer) whatever it holds, and neither the bind nor the execution nor
\* the update changes the wrapper.
C13_SharedBoundAsNull ==
    \A i \in 1 .. Len(args) :
        args0[i].form \in { "Nvl", "&Nvl" } =>
            /\ args[i] = args0[i]
            /\ NvlAsRef(args[i].val) = args0[i].val
            /\ i \in Bound =>
                  aParams[spans[i][1]] =
                      Some([sqlt |-> SqlNullType, buf |-> None, ind |-> OCI_IND_NULL])

\* C13 witness: a Holding wrapper was bound by shared reference, the statement
\* was executed and the arguments updated; as_ref still returns Some(1).
C13_Witness ==
    /\ aPhase = "done"
    /\ aStmt.kind = "null"
    /\ args0[1] = [form |-> "&Nvl", val |-> NvlNew(1)]
    /\ NvlAsRef(args[1].val) = Some(1)
    /\ aParams[1] = Some([sqlt |-> SqlNullType, buf |-> None, ind |-> OCI_IND_NULL])

\* C14: a statement that assigns NULL to its placeholders executes
\* successfully, and a `&mut Some(v)` bound to it is None when execute returns.
C14_OptionNullOut ==
    aStmt.kind = "null" =>
        /\ aCode = 0
        /\ aPhase \in { "executed", "done" }
        /\ aPhase = "done" =>
              \A i \in 1 .. Len(args) :
                  args0[i].form = "&mut Option<T>" /\ args0[i].val # None =>
                      args[i].val = None

\* C14 witness: `&mut Some(1)` was bound, the statement assigned NULL, and the
\* Option is None after execute.
C14_Witness ==
    /\ aPhase = "done"
    /\ aStmt.kind = "null"
    /\ aCode = 0
    /\ args0 = << [form |-> "&mut Option<T>", val |-> Some(1)] >>
    /\ args[1].val = None

\* C15: a statement that writes a value to a placeholder bound to an empty
\* optional reference does not succeed: execute returns the server's error
\* 6502 as its code, and the arguments are as they were.
C15_OutputToNone ==
    aStmt.kind = "set" /\ (\E i \in 1 .. Len(args) : args0[i].form \in OptRefForms) =>
        /\ aPhase = "failed"
        /\ aCode = ORA_06502
        /\ args = args0

\* C15 witness: the statement was to write a value to the placeholder an empty
\* Option<&mut T> is bound to, and execute returned 6502.
C15_Witness ==
    /\ aStmt = [kind |-> "set", value |-> 1]
    /\ args0 = << [form |-> "Option<&mut T>", val |-> None] >>
    /\ aPhase = "failed"
    /\ aCode = ORA_06502

-----------------------------------------------------------------------------
(***************************************************************************)
(* Properties of Columns::new (checked under SpecColumns)                  *)
(***************************************************************************)

\* The ColumnBuffer variant that stores a column of the given ColumnType:
\* Text the character types (and a type that is not decoded, which is fetched
\* as text), Binary the raw ones, and its own variant each of the others.
VariantOf(type) ==
    CASE type \in { "Char", "NChar", "Varchar", "NVarchar", "Long", "Unknown" } -> "Text"
      [] type \in { "Raw", "LongRaw" } -> "Binary"
      [] type \in { "Clob", "NClob" }  -> "CLOB"
      [] type = "Blob"         -> "BLOB"
      [] type = "Number"       -> "Number"
      [] type = "BinaryFloat"  -> "Float"
      [] type = "BinaryDouble" -> "Double"
      [] type = "Date"         -> "Date"
      [] type = "Timestamp"    -> "Timestamp"
      [] type = "TimestampWithTimeZone"      -> "TimestampTZ"
      [] type = "TimestampWithLocalTimeZone" -> "TimestampLTZ"
      [] type = "IntervalYearToMonth" -> "IntervalYM"
      [] type = "IntervalDayToSecond" -> "IntervalDS"
      [] type = "RowID"        -> "Rowid"
      [] type = "Cursor"       -> "Cursor"

\* C20: for every column described, whatever its type code, the variant of
\* the buffer ColumnBuffer::new allocated for it is the one of the column type
\* ColumnInfo::data_type reports for it.
C20_VariantMatchesType ==
    \A i \in 1 .. Len(cols) :
        /\ data_type(cols[i].inf.code, cols[i].inf.csform) \in ColumnTypes
        /\ cols[i].buf = VariantOf(data_type(cols[i].inf.code, cols[i].inf.csform))

-----------------------------------------------------------------------------
(***************************************************************************)
(* Properties of the buffer size of a column (checked under SpecSize)      *)
(***************************************************************************)

\* The column sized is a text or raw column other than LONG and LONG RAW
SizedByReport ==
    /\ BufferVariant(szIn.code) \in { "Text", "Binary" }
    /\ szIn.code \notin { "SQLT_LNG", "SQLT_LBI" }

\* C21: for a text or raw column with reported size N and expansion factor f
\* (any u32 that ORACLE_UTF8_CONV_FACTOR spells, 2 when it is unset or
\* unparseable), once the column is sized and its buffer allocated the
\* allocated capacity is at least N * f and the capacity registered with the
\* driver is N * f plus the 4-byte length prefix: the size computation never
\* yields less.
C21_CapacityCoversExpansion ==
    szOut # None /\ SizedByReport /\ szIn.allocOk =>
        LET f == utf8_factor(szIn.env)
        IN  /\ f = IF szIn.env # None /\ ParseU32(szIn.env[1]) # None
                   THEN szIn.env[1].n ELSE 2
            /\ szOut[1].outcome = "ok"
            /\ szOut[1].allocated >= szIn.n * f
            /\ szOut[1].registered = szIn.n * f + 4

\* C22: for LONG and LONG RAW columns the buffer size is exactly the
\* configured max long fetch size, whatever size the database reports and
\* whatever the expansion factor is: it is what is allocated, and with the
\* length prefix what is registered.
C22_LongUsesMaxFetchSize ==
    szOut # None /\ szIn.code \in { "SQLT_LNG", "SQLT_LBI" } =>
        /\ szOut[1].outcome # "panic"
        /\ szOut[1].data_size = szIn.maxLong
        /\ szIn.allocOk =>
              /\ szOut[1].variant = IF szIn.code = "SQLT_LNG" THEN "Text" ELSE "Binary"
              /\ szOut[1].allocated = szIn.maxLong
              /\ szOut[1].registered = szIn.maxLong + 4

\* A LONG column was sized whose reported size times the factor is another
\* value than the max long fetch size, and does not even fit a u32
C22_Witness ==
    /\ szOut # None
    /\ szIn.code = "SQLT_LNG"
    /\ szIn.allocOk
    /\ szIn.n * utf8_factor(szIn.env) >= U32Size
    /\ szIn.maxLong = 1
    /\ szOut[1].outcome = "ok"
    /\ szOut[1].allocated = 1

-----------------------------------------------------------------------------
(***************************************************************************)
(* Properties of Varchar (checked under SpecVarchar)                       *)
(***************************************************************************)

\* The last operation succeeded and was the given one
Did(op) == vRes.op = op /\ vRes.ok

\* len(), as_str() and capacity() of the Varchar are those of the text
Reflects(text) ==
    /\ VarcharLen(vtxt[1]) = Len(text)
    /\ VarcharAsStr(vtxt[1]) = text
    /\ VarcharCapacity(vtxt[1]).ok
    /\ VarcharCapacity(vtxt[1]).val[1] >= VarcharLen(vtxt[1])

\* from_varchar(src) gave a Varchar of the content of src and left src as it was
CopiedSource ==
    Did("from_varchar") =>
        /\ VarcharAsStr(vtxt[1]) = VarcharAsStr(vsrc[1])
        /\ VarcharLen(vtxt[1]) = VarcharLen(vsrc[1])
        /\ vsrc = vRes.src

\* C25: a Varchar reflects exactly what was last assigned: after
\* Varchar::from(text) or set(text), len() is the byte length of text, as_str()
\* is text and capacity() is at least len(); after with_capacity(n), len() is 0
\* and capacity() is at least n; from_varchar(src) gives a value of the same
\* content and leaves src unchanged.
C25_VarcharReflectsAssigned ==
    /\ Did("from") \/ Did("set") => Reflects(vRes.text)
    /\ Did("with_capacity") =>
          /\ VarcharLen(vtxt[1]) = 0
          /\ VarcharCapacity(vtxt[1]).ok
          /\ VarcharCapacity(vtxt[1]).val[1] >= vRes.size
    /\ CopiedSource

\* C25, amended: as C25 for a text of fewer than 2^32 bytes and for
\* with_capacity(n) with 0 < n < 2^32; after with_capacity(0) the Varchar has
\* no memory and capacity() is an error.
C25_VarcharReflectsAssignedU32 ==
    /\ (Did("from") \/ Did("set")) /\ Len(vRes.text) < U32Size => Reflects(vRes.text)
    /\ Did("with_capacity") /\ 0 < vRes.size /\ vRes.size < U32Size =>
          /\ VarcharLen(vtxt[1]) = 0
          /\ VarcharCapacity(vtxt[1]).ok
          /\ VarcharCapacity(vtxt[1]).val[1] >= vRes.size
    /\ Did("with_capacity") /\ vRes.size = 0 => ~VarcharCapacity(vtxt[1]).ok
    /\ CopiedSource

\* A text was set into a Varchar that held another, longer one
C25_Witness ==
    /\ Did("set")
    /\ vRes.text = <<"b">>
    /\ VarcharAsStr(vtxt[1]) = <<"b">>
    /\ VarcharCapacity(vtxt[1]) = Ok(2)

-----------------------------------------------------------------------------
(***************************************************************************)
(* Properties of the description of a projection (checked under            *)
(* SpecColumns)                                                            *)
(***************************************************************************)

\* C23: during the description of a statement the output of a column is
\* registered with the driver (define_by_pos) only after the buffers of all
\* the projected columns have been allocated.
C23_DefineAfterAllAllocated ==
    \A i \in 1 .. Len(cols) : cols[i].defined => Len(cols) = numColumns

\* C23, amended: the output of a column is registered only after the buffer
\* of that column has been allocated and pushed into the vector, and before
\* the buffer of the next column is allocated: every column before the last
\* one pushed is registered, at the place it has in the vector, and the last
\* one pushed is unless its define_by_pos failed.
C23_DefineAfterOwnPush ==
    \A i \in 1 .. Len(cols) :
        /\ cols[i].buf # "none"
        /\ cols[i].defined => cols[i].at = Some(<<vec.alloc, i - 1>>)
        /\ i < Len(cols) => cols[i].defined
        /\ ~cols[i].defined => i = Len(cols) /\ colsRes = "err"

\* The first of two columns is registered while the buffer of the second is
\* not allocated yet
C23_Witness ==
    /\ numColumns = 2
    /\ Len(cols) = 1
    /\ colsRes = "none"
    /\ cols[1].defined
    /\ cols[1].buf = "Text"

\* C24: the locations registered with the driver never move for the lifetime
\* of the Columns: the vector is pre-sized to the column count and never
\* reallocated, no more columns than that are pushed, exactly that many are
\* in a Columns that was returned, and every registered column is still where
\* it was registered, whatever lookups followed.
C24_RegisteredNeverMove ==
    /\ vec.cap >= numColumns
    /\ vec.alloc = 0
    /\ Len(cols) <= numColumns
    /\ colsRes \in { "ok", "dropped" } => Len(cols) = numColumns
    /\ \A i \in 1 .. Len(cols) :
          cols[i].defined => cols[i].at = Some(<<vec.alloc, i - 1>>)

\* A Columns of two registered columns after a col_mut of its second column
C24_Witness ==
    /\ colsRes = "ok"
    /\ numColumns = 2
    /\ Len(cols) = 2
    /\ cols[1].defined /\ cols[2].defined
    /\ lookup.op = "col_mut"
    /\ lookup.res = Some(1)

\* The (0-based) indexes of the columns of the given name
IndexesOf(name) == { i \in 0 .. Len(cols) - 1 : cols[i + 1].inf.name = name }

\* The largest of a set of indexes
Last(indexes) == CHOOSE i \in indexes : \A j \in indexes : j <= i

\* C29: the lookup by name of a Columns is consistent with the order of the
\* columns: for every index i of the projection col_index of the name of
\* column i is i, also when two columns have the same name, and col_index of
\* a name not in the projection is None.
C29_LookupIsColumnOrder ==
    colsRes = "ok" =>
        /\ \A i \in 0 .. Len(cols) - 1 :
              col_index(names, cols[i + 1].inf.name) = Some(i)
        /\ col_index(names, AbsentName) = None

\* C29, amended: col_index of a name that columns of the projection have is
\* the index of the last column of that name (of the column itself when no
\* later column has its name); col_index of a name not in the projection is
\* None.
C29_LookupIsLastOfName ==
    colsRes = "ok" =>
        /\ \A i \in 0 .. Len(cols) - 1 :
              col_index(names, cols[i + 1].inf.name) = Some(Last(IndexesOf(cols[i + 1].inf.name)))
        /\ \A name \in ColumnNames \cup { AbsentName } :
              IndexesOf(name) = {} => col_index(names, name) = None
        /\ lookup.op = "col_index" => lookup.res = col_index(names, lookup.name)

\* Both columns of a projection have the same name and col_index of it gave
\* the second
C29_Witness ==
    /\ colsRes = "ok"
    /\ Len(cols) = 2
    /\ cols[1].inf.name = "A" /\ cols[2].inf.name = "A"
    /\ lookup = [op |-> "col_index", name |-> "A", index |-> 0, res |-> Some(1)]

\* C30: every text or raw buffer allocated for a projection is released
\* exactly once: when the Columns is dropped, and when Columns::new fails at a
\* column, for the buffers of the columns described before it; none is ever
\* released twice.
C30_BuffersReleasedOnce ==
    /\ \A i \in 1 .. Len(cols) : cols[i].freed <= 1
    /\ colsRes \in { "err", "dropped" } =>
          \A i \in 1 .. Len(cols) :
              cols[i].done /\ cols[i].buf \in { "Text", "Binary" } => cols[i].freed = 1

-----------------------------------------------------------------------------
(***************************************************************************)
(* Properties of repeated conversions of a column (checked under SpecCols) *)
(***************************************************************************)

\* The step is a Row::get
IsGet == gets' = gets + 1

\* The last call converted a fetched ROWID to String
RowidAsString ==
    /\ lastRes.target = "String"
    /\ ~lastRes.null
    /\ lastRes.res.ok
    /\ lastRes.before.kind = "Rowid"
    /\ is_initialized(lastRes.before.data)

\* C26: converting a ROWID column to String does not consume it: the buffer
\* is as it was, and when the next conversion of the column is the first one
\* of the row to RowID (its descriptor being allocated), it succeeds and the
\* text of the RowID it gives is the String obtained just before; so it is
\* after any number of String conversions in a row.
C26_StringKeepsRowid ==
    /\ [](RowidAsString => colBuf = lastRes.before)
    /\ [][IsGet /\ RowidAsString /\ lastRes'.target = "RowID" /\ lastRes'.allocOk
             /\ lastRes'.prevOk = 0
          => /\ lastRes'.res.ok
             /\ RowIDToString(lastRes'.res.val[1]) = lastRes.res.val[1]]_vars

\* The third conversion of a ROWID of the second row is the first to RowID;
\* it succeeded and took the descriptor the row was fetched into
C26_Witness ==
    /\ rowNum = 2
    /\ gets = 3
    /\ lastRes.target = "RowID"
    /\ lastRes.prevOk = 0
    /\ lastRes.res = Ok([as |-> "RowID", of |-> Fetched(2)])
    /\ lastRes.before = [kind |-> "Rowid", data |-> Fetched(2)]
    /\ colBuf = [kind |-> "Rowid", data |-> NewDescriptor]

\* The last call was a conversion, of a value that is not NULL, that failed
FailedConversion == lastRes.target # "none" /\ ~lastRes.null /\ ~lastRes.res.ok

\* C27: a conversion that fails (a pair of buffer and target that is
\* reported as "cannot convert", or a failed allocation inside a LOB, RowID
\* or Cursor conversion) leaves the column buffer unchanged, its handle not
\* swapped out; the conversion that follows it in the row finds the buffer
\* the failed one found, and succeeds when it is the conversion to the
\* column's own type of a handle not taken yet and its allocation succeeds.
C27_FailureLeavesBuffer ==
    /\ [](FailedConversion => colBuf = lastRes.before)
    /\ [][IsGet /\ FailedConversion
          => /\ lastRes'.before = lastRes.before
             /\ (/\ lastRes'.target = OwnTarget(lastRes.before.kind)
                 /\ lastRes'.allocOk
                 /\ is_initialized(lastRes.before.data))
                => lastRes'.res.ok]_vars

\* The allocation inside the conversion of a fetched CLOB to its own type
\* failed and the locator is still in the buffer
C27_Witness ==
    /\ lastRes.target = "CLOB"
    /\ lastRes.res = Err(AllocError)
    /\ lastRes.before = [kind |-> "CLOB", data |-> Fetched(1)]
    /\ colBuf = lastRes.before
    /\ gets = 1

-----------------------------------------------------------------------------
(***************************************************************************)
(* Properties of the read-back of an Nvl (checked under SpecNvl)           *)
(***************************************************************************)

\* The last call was update_from_bind of the wrapper bound by mutable reference
WasReadBack == nvlRes.op \in { "update_from_bind", "update_from_bind_at" }

\* The position it was called for
ReadBackPos == IF nvlRes.op = "update_from_bind" THEN bindPos ELSE nvlRes.arg[1]

\* The wrapper is Holding or Empty as it was when it was bound
SameStateAsBound == (nvl = None) <=> (nvlRes.before = None)

\* C28: the read-back after an execution of an Nvl bound by mutable reference
\* empties the wrapper only when the indicator of its position reports NULL;
\* when the indicator reports a value that is not NULL, or no indicator is
\* recorded for the position, the wrapper is Holding or Empty as it was
\* before the execution.
C28_EmptiedOnlyByNullIndicator ==
    WasReadBack /\ is_null(params, ReadBackPos) # Some(TRUE) => SameStateAsBound

\* C28, amended: the read-back empties the wrapper when the indicator of its
\* position reports NULL and also when no indicator is recorded for the
\* position; only when the indicator reports a value that is not NULL is the
\* wrapper Holding or Empty as it was before the execution.
C28_EmptiedUnlessIndicatorNotNull ==
    WasReadBack =>
        /\ is_null(params, ReadBackPos) = Some(FALSE) => SameStateAsBound
        /\ is_null(params, ReadBackPos) \in { None, Some(TRUE) } => nvl = None

\* A wrapper that was Holding is Empty after a read-back of a position
\* without an indicator, the indicator of the position it was bound at
\* reporting a value
C28_Witness ==
    /\ nvlRes.op = "update_from_bind_at"
    /\ nvlRes.before # None
    /\ is_null(params, ReadBackPos) = None
    /\ is_null(params, bindPos) = Some(FALSE)
    /\ nvl = None

=============================================================================
